---- MODULE Spec2Model ----
(***************************************************************************)
(* Backtesting and parameter-search core of Optimize_With_Optuna.          *)
(*                                                                         *)
(*   - the trade simulator BaseStrategy.execute_trades                     *)
(*     (src/src/strategy_base.py; the copy in src/src/strategy_management  *)
(*     .py runs the same bar loop),                                        *)
(*   - the two calculate_performance implementations                       *)
(*     (strategy_base.py and strategy_management.py),                      *)
(*   - the moving-average-cross strategy                                   *)
(*     (src/strategies/ma_cross_strategy.py),                              *)
(*   - StrategyOptimizer of src/src/strategy_optimizer.py: the grid        *)
(*     search, the Bayesian search with its objective, the final backtest  *)
(*     and the top-trials list,                                            *)
(*   - StrategyOptimizer of src/src/optimization.py: objective, optimize   *)
(*     and optimize_strategy with the seeded sampler, _get_diverse_trials. *)
(*                                                                         *)
(* Floating-point values are modelled as exact rationals [n, d] with       *)
(* d > 0; d = 0 encodes the IEEE results of a division by zero             *)
(* (n = 1: +inf, n = -1: -inf, n = 0: NaN).  Where the code's result hangs *)
(* on the rounding of doubles (a standard deviation compared with 0, the   *)
(* sign of a mean, a number formatted to one decimal) the values are       *)
(* binary64 doubles, computed bit for bit.                                 *)
(***************************************************************************)
EXTENDS Integers, Sequences, FiniteSets, TLC

VARIABLES
    closes,       \* df['close'], one price per bar (python index k is closes[k+1])
    signals,      \* signals['signal'], one of -1, 0, 1 per bar
    pc,           \* position of the strategy instance's caller
    i,            \* loop variable of execute_trades (python index)
    position,     \* local `position` of execute_trades
    trades,       \* local `trades` of execute_trades
    opened,       \* ghost: number of positions created so far in this run
    self_trades,  \* BaseStrategy.trades
    metrics,      \* the record returned by calculate_performance
    study,        \* optuna study: the recorded trials, in order
    trial,        \* the trial being evaluated by _objective
    sim_calls,    \* ghost: the calls of execute_trades: parameter set and call site
    optimizer_type, \* StrategyOptimizer.optimizer_type: "grid" or "bayesian"
    self_parameter_space, \* StrategyOptimizer.parameter_space, the declaration
                  \* strategy_class({}).parameter_space
    data_columns, \* the column names of StrategyOptimizer.data
    data0,        \* ghost: StrategyOptimizer.data as it was handed to __init__
    trials,       \* local `trials` of _grid_search
    best_value,   \* local `best_value` of _grid_search
    best_params,  \* local `best_params` of _grid_search / _bayesian_optimization
    result,       \* what optimize returned, or the exception it raised
    visited,      \* rows of the sorted trials frame _get_diverse_trials has seen
    used_params,  \* local `used_params` of _get_diverse_trials
    top_trials,   \* local `top_trials` of _get_diverse_trials
    twin,         \* ghost: a second run of the same configuration has proposed
                  \* the same parameter sets so far
    n_trials,     \* argument n_trials of optimize: given or None, and its value
    parameters,   \* BaseStrategy.parameters of the strategy instance
    runs,         \* ghost: number of execute_trades calls started on the instance
    prev_trades,  \* ghost: the ledger the previous execute_trades call returned
    _strategies,  \* StrategyRegistry._strategies: strategy name -> class
    reg_log,      \* ghost: the classes passed to register, in call order
    reg_result    \* outcome of the last call of a StrategyRegistry method

simVars == <<closes, signals, pc, i, position, trades, opened, self_trades, metrics>>
stratVars == <<signals, i, position, trades, opened, self_trades, metrics,
               parameters, runs, prev_trades>>
optVars == <<optimizer_type, self_parameter_space, data_columns, data0, trials,
             best_value, best_params, result, visited, used_params, top_trials, twin>>
cfgVars == <<closes, data0, optimizer_type, self_parameter_space, n_trials>>
regVars == <<_strategies, reg_log, reg_result>>
gridVars == <<trials, best_value>>
diverseVars == <<visited, used_params, top_trials>>
searchVars == <<study, trial, sim_calls, optVars, n_trials>>
vars == <<closes, signals, pc, i, position, trades, opened, self_trades, metrics,
          study, trial, sim_calls, optimizer_type, self_parameter_space,
          data_columns, data0, trials,
          best_value, best_params, result, visited, used_params, top_trials, twin,
          n_trials, parameters, runs, prev_trades, _strategies, reg_log, reg_result>>

(***************************************************************************)
(* Bounds of the model.                                                    *)
(***************************************************************************)
MaxBars == 4      \* longest price series drawn
MaxPrice == 2     \* close prices are drawn from 1..MaxPrice
MaxFast == 2      \* the searched strategy declares fast_ma in 1..MaxFast
MaxSlow == 4      \* and slow_ma in 2..MaxSlow
MaxTrials == 2    \* largest n_trials, the trial budget of a Bayesian search

(***************************************************************************)
(* Rational arithmetic standing for the floats of the program.             *)
(***************************************************************************)
Abs(x) == IF x < 0 THEN -x ELSE x

Sign(x) == IF x < 0 THEN -1 ELSE IF x > 0 THEN 1 ELSE 0

RECURSIVE GCD(_, _)
GCD(a, b) == IF b = 0 THEN a ELSE GCD(b, a % b)

\* n/d in lowest terms with a positive denominator; x/0 is +inf, -inf or NaN
Norm(n, d) ==
    IF d = 0 THEN [n |-> Sign(n), d |-> 0]
    ELSE LET g == GCD(Abs(n), Abs(d))
             s == IF d < 0 THEN -1 ELSE 1
         IN  [n |-> (s * n) \div g, d |-> (s * d) \div g]

Rat(k) == [n |-> k, d |-> 1]
Zero == Rat(0)
One == Rat(1)
NaN == [n |-> 0, d |-> 0]
NegInf == [n |-> -1, d |-> 0]
PosInf == [n |-> 1, d |-> 0]

IsNaN(a) == a.d = 0 /\ a.n = 0
IsFinite(a) == a.d # 0

RNeg(a) == [n |-> -a.n, d |-> a.d]

RAdd(a, b) ==
    IF a.d = 0 /\ b.d = 0 THEN (IF a.n = b.n THEN a ELSE NaN)
    ELSE IF a.d = 0 THEN a
    ELSE IF b.d = 0 THEN b
    ELSE LET g == GCD(a.d, b.d)
         IN  Norm(a.n * (b.d \div g) + b.n * (a.d \div g), (a.d \div g) * b.d)

RSub(a, b) == RAdd(a, RNeg(b))

RMul(a, b) ==
    IF a.d = 0 \/ b.d = 0 THEN Norm(a.n * b.n, 0)
    ELSE LET g1 == GCD(Abs(a.n), b.d)
             g2 == GCD(Abs(b.n), a.d)
             h1 == IF g1 = 0 THEN 1 ELSE g1
             h2 == IF g2 = 0 THEN 1 ELSE g2
         IN  Norm((a.n \div h1) * (b.n \div h2), (a.d \div h2) * (b.d \div h1))

\* 1/b with the sign kept in the numerator; 1/0 is +inf, 1/inf is 0
RInv(b) ==
    IF b.n < 0 THEN [n |-> -b.d, d |-> -b.n]
    ELSE IF b.n = 0 /\ b.d = 0 THEN NaN
    ELSE [n |-> b.d, d |-> b.n]

RDiv(a, b) ==
    IF b.n = 0 /\ b.d # 0 THEN Norm(a.n, 0)
    ELSE IF a.d = 0 /\ b.d = 0 THEN NaN
    ELSE RMul(a, RInv(b))

RAbs(a) == [n |-> Abs(a.n), d |-> a.d]

\* IEEE comparison: anything compared with NaN is false
RLt(a, b) ==
    IF IsNaN(a) \/ IsNaN(b) THEN FALSE
    ELSE IF a.d = 0 /\ b.d = 0 THEN a.n < b.n
    ELSE a.n * b.d < b.n * a.d

RGt(a, b) == RLt(b, a)

RLe(a, b) == ~IsNaN(a) /\ ~IsNaN(b) /\ ~RLt(b, a)

RMax(a, b) == IF RGt(b, a) THEN b ELSE a

RECURSIVE RSum(_)
RSum(s) == IF s = <<>> THEN Zero ELSE RAdd(Head(s), RSum(Tail(s)))

RECURSIVE RProd(_)
RProd(s) == IF s = <<>> THEN One ELSE RMul(Head(s), RProd(Tail(s)))

(***************************************************************************)
(* IEEE-754 binary64 arithmetic, for the places where the program branches *)
(* on a float that rounding decides: `std() != 0`, the sign of a mean, the *)
(* digits of a formatted percentage, `peak != 0` on a cumulative sum.  A   *)
(* double is kind, neg, m, e: of kind "num" it stands for                  *)
(* (-1)^neg * m * 2^e, m a natural number written in bits, most            *)
(* significant first, odd and of at most Precision bits; zero has no bits  *)
(* and no sign.  Kind "inf" is +inf or -inf by neg, kind "nan" is NaN.     *)
(* The exponent range is not bounded: no value of the model comes near     *)
(* overflow or the subnormal numbers.                                      *)
(***************************************************************************)
Precision == 53

\* a function on 1..n as the sequence of its values
Tuple(f) == <<>> \o f

\* the number of bits of a natural number below 2^31
BitLength(n) == IF n = 0 THEN 0 ELSE CHOOSE len \in 1..31 : n \div 2^(len - 1) = 1

\* the bits of a natural number, most significant first
NatBits(n) ==
    LET len == BitLength(n)
    IN  Tuple([j \in 1..len |-> (n \div 2^(len - j)) % 2])

\* the number written by at most 30 bits, by halves
RECURSIVE BitsNat(_)
BitsNat(b) ==
    IF Len(b) = 0 THEN 0
    ELSE IF Len(b) = 1 THEN b[1]
    ELSE LET half == Len(b) \div 2
         IN  BitsNat(SubSeq(b, 1, half)) * 2^(Len(b) - half)
                + BitsNat(SubSeq(b, half + 1, Len(b)))

Zeros(k) == Tuple([j \in 1..k |-> 0])

LeadingZeros(b) ==
    IF \A j \in 1..Len(b) : b[j] = 0 THEN Len(b)
    ELSE (CHOOSE j \in 1..Len(b) : b[j] = 1 /\ \A h \in 1..(j - 1) : b[h] = 0) - 1

StripLeading(b) == SubSeq(b, LeadingZeros(b) + 1, Len(b))

HasOne(b) == \E j \in 1..Len(b) : b[j] = 1

PadTo(b, k) == Zeros(k - Len(b)) \o b

\* a bit string cut into limbs of `width` bits, the least significant first
LimbsOf(b, width) ==
    Tuple([j \in 1..((Len(b) + width - 1) \div width) |->
             BitsNat(SubSeq(b, IF Len(b) - width * j + 1 < 1 THEN 1
                               ELSE Len(b) - width * j + 1,
                            Len(b) - width * (j - 1)))])

\* the bits of limbs of `width` bits, the most significant first
BitsOf(limbs, width) ==
    Tuple([j \in 1..(Len(limbs) * width) |->
             (limbs[Len(limbs) - ((j - 1) \div width)]
                 \div 2^(width - 1 - ((j - 1) % width))) % 2])

LimbBase == 2^24

\* the limbs of a + b + carry (sign 1) or a - b - borrow (sign -1, a >= b)
RECURSIVE CarryLimbs(_, _, _, _)
CarryLimbs(a, b, sign, c) ==
    IF a = <<>> /\ b = <<>> THEN (IF c = 0 THEN <<>> ELSE <<c>>)
    ELSE LET x == IF a = <<>> THEN 0 ELSE Head(a)
             y == IF b = <<>> THEN 0 ELSE Head(b)
             t == x + sign * (y + c)
             ra == IF a = <<>> THEN a ELSE Tail(a)
             rb == IF b = <<>> THEN b ELSE Tail(b)
         IN  IF t < 0 THEN <<t + LimbBase>> \o CarryLimbs(ra, rb, sign, 1)
             ELSE IF t >= LimbBase THEN <<t - LimbBase>> \o CarryLimbs(ra, rb, sign, 1)
             ELSE <<t>> \o CarryLimbs(ra, rb, sign, 0)

\* a + b (sign 1) or a - b (sign -1, a >= b)
CombineBits(a, b, sign) ==
    StripLeading(BitsOf(CarryLimbs(LimbsOf(a, 24), LimbsOf(b, 24), sign, 0),
                        24))

\* a < b on bit strings without leading zeros
LessBits(a, b) ==
    \/ Len(a) < Len(b)
    \/ /\ Len(a) = Len(b)
       /\ \E j \in 1..Len(a) :
             /\ a[j] < b[j]
             /\ \A h \in 1..(j - 1) : a[h] = b[h]

\* the limbs of a * k + carry for a natural k <= 128
RECURSIVE MulLimbs(_, _, _)
MulLimbs(a, k, c) ==
    IF a = <<>> THEN (IF c = 0 THEN <<>> ELSE <<c>>)
    ELSE LET t == Head(a) * k + c
         IN  IF t >= LimbBase
             THEN <<t % LimbBase>> \o MulLimbs(Tail(a), k, t \div LimbBase)
             ELSE <<t>> \o MulLimbs(Tail(a), k, 0)

MulBits(b, k) == StripLeading(BitsOf(MulLimbs(LimbsOf(b, 24), k, 0), 24))

FZero == [kind |-> "num", neg |-> FALSE, m |-> <<>>, e |-> 0]
FNaN == [kind |-> "nan", neg |-> FALSE, m |-> <<>>, e |-> 0]
FInf(neg) == [kind |-> "inf", neg |-> neg, m |-> <<>>, e |-> 0]

FIsNaN(x) == x.kind = "nan"
FIsFinite(x) == x.kind = "num"
FIsZero(x) == x.kind = "num" /\ x.m = <<>>

TrailingZeros(b) ==
    IF \A j \in 1..Len(b) : b[j] = 0 THEN Len(b)
    ELSE Len(b) - (CHOOSE j \in 1..Len(b) : b[j] = 1 /\ \A h \in (j + 1)..Len(b) : b[h] = 0)

\* the double of value (-1)^neg * bits * 2^e, bits of at most Precision bits
Canon(neg, bits, e) ==
    LET b == StripLeading(bits)
        z == TrailingZeros(b)
    IN  IF b = <<>> THEN FZero
        ELSE [kind |-> "num", neg |-> neg, m |-> SubSeq(b, 1, Len(b) - z), e |-> e + z]

\* round to nearest, ties to even: the double nearest to bits * 2^e, or to a
\* value just above it when sticky
RoundNearestEven(neg, bits, e, sticky) ==
    LET b == StripLeading(bits)
        long == Len(b) > Precision
        keep == SubSeq(b, 1, Precision)
        guard == b[Precision + 1]
        rest == sticky \/ HasOne(SubSeq(b, Precision + 2, Len(b)))
        up == long /\ guard = 1 /\ (rest \/ keep[Precision] = 1)
    IN  Canon(neg,
              IF ~long THEN b ELSE IF up THEN CombineBits(keep, <<1>>, 1) ELSE keep,
              IF long THEN e + Len(b) - Precision ELSE e)

FNeg(x) == IF FIsZero(x) \/ FIsNaN(x) THEN x ELSE [x EXCEPT !.neg = ~x.neg]

\* -1, 0 or 1 as x < 0, x = 0 or NaN, x > 0
FSign(x) == IF FIsZero(x) \/ FIsNaN(x) THEN 0 ELSE IF x.neg THEN -1 ELSE 1

\* x < 0, false for NaN
FIsNegative(x) == FSign(x) < 0

\* x + y of two numbers
AddNum(x, y) ==
    IF x.m = <<>> THEN y
    ELSE IF y.m = <<>> THEN x
    ELSE LET e == IF x.e < y.e THEN x.e ELSE y.e
             a == x.m \o Zeros(x.e - e)
             b == y.m \o Zeros(y.e - e)
             less == LessBits(a, b)
         IN  RoundNearestEven(IF less THEN y.neg ELSE x.neg,
                              CombineBits(IF less THEN b ELSE a, IF less THEN a ELSE b,
                                          IF x.neg = y.neg THEN 1 ELSE -1),
                              e, FALSE)

\* x + y in doubles
FAdd(x, y) ==
    IF FIsNaN(x) \/ FIsNaN(y) THEN FNaN
    ELSE IF x.kind = "inf" THEN (IF y.kind = "inf" /\ y.neg # x.neg THEN FNaN ELSE x)
    ELSE IF y.kind = "inf" THEN y
    ELSE AddNum(x, y)

FSub(x, y) == FAdd(x, FNeg(y))

\* |x| < |y| for two numbers that are not zero: the place of the leading bit
\* decides, then the bits
LessMagnitude(x, y) ==
    LET top_x == x.e + Len(x.m)
        top_y == y.e + Len(y.m)
        len == IF Len(x.m) < Len(y.m) THEN Len(y.m) ELSE Len(x.m)
    IN  \/ top_x < top_y
        \/ /\ top_x = top_y
           /\ LessBits(x.m \o Zeros(len - Len(x.m)), y.m \o Zeros(len - Len(y.m)))

\* x < y in doubles, false when either is NaN
FLess(x, y) ==
    IF FIsNaN(x) \/ FIsNaN(y) THEN FALSE
    ELSE IF x.kind = "inf" THEN x.neg /\ ~(y.kind = "inf" /\ y.neg)
    ELSE IF y.kind = "inf" THEN ~y.neg
    ELSE IF FSign(x) # FSign(y) THEN FSign(x) < FSign(y)
    ELSE IF FSign(x) = 0 THEN FALSE
    ELSE IF x.neg THEN LessMagnitude(y, x)
    ELSE LessMagnitude(x, y)

FGreater(x, y) == FLess(y, x)

\* the limbs of base 2^14 of a list of column sums below 2^31, carried
RECURSIVE CarryColumns(_, _)
CarryColumns(cols, c) ==
    IF cols = <<>> THEN (IF c = 0 THEN <<>> ELSE <<c>>)
    ELSE LET t == Head(cols) + c
         IN  <<t % 2^14>> \o CarryColumns(Tail(cols), t \div 2^14)

\* the bits of a * b, a and b of at most 56 bits: four limbs of 14 bits
\* each, the products of the limbs added up by column
MulColumns(a, b) ==
    LET la == LimbsOf(PadTo(a, 56), 14)
        lb == LimbsOf(PadTo(b, 56), 14)
        P(u, v) == IF u \in 1..4 /\ v \in 1..4 THEN la[u] * lb[v] ELSE 0
        cols == Tuple([k \in 1..7 |-> P(1, k) + P(2, k - 1) + P(3, k - 2) + P(4, k - 3)])
    IN  BitsOf(CarryColumns(cols, 0), 14)

\* x * y in doubles
FMul(x, y) ==
    IF FIsNaN(x) \/ FIsNaN(y) THEN FNaN
    ELSE IF x.kind = "inf" \/ y.kind = "inf"
    THEN (IF FIsZero(x) \/ FIsZero(y) THEN FNaN ELSE FInf(x.neg # y.neg))
    ELSE IF x.m = <<>> \/ y.m = <<>> THEN FZero
    ELSE RoundNearestEven(x.neg # y.neg, MulColumns(x.m, y.m), x.e + y.e, FALSE)

\* a < b on limbs of equal number, least significant first
LessLimbs(a, b) ==
    \E j \in 1..Len(a) :
        /\ a[j] < b[j]
        /\ \A h \in (j + 1)..Len(a) : a[h] = b[h]

\* three limbs of a bit string of at most 72 bits
ThreeLimbs(b) == LimbsOf(PadTo(b, 72), 24)

PadLimbs(limbs) == Tuple([j \in 1..3 |-> IF j <= Len(limbs) THEN limbs[j] ELSE 0])

\* floor(v / 2^30) of three limbs
TopOf(v) == (v[2] \div 2^6) + v[3] * 2^18

\* the quotient bits and the remainder after `count` digits of 7 bits of the
\* long division of rem by d on three limbs, rem < d and d of 53 bits, q
\* the bits before them: the digit lies between the quotients of the leading
\* bits taken low and high, and is the one whose product fits
RECURSIVE DivDigits(_, _, _, _)
DivDigits(rem, d, count, q) ==
    IF count = 0 THEN [q |-> q, r |-> rem]
    ELSE LET before == DivDigits(rem, d, count - 1, q)
             shifted == PadLimbs(MulLimbs(before.r, 128, 0))
             low == TopOf(shifted) \div (TopOf(d) + 1)
             most == (TopOf(shifted) + 1) \div TopOf(d)
             high == IF most > 127 THEN 127 ELSE most
             digit == CHOOSE k \in low..high :
                         /\ ~LessLimbs(shifted, PadLimbs(MulLimbs(d, k, 0)))
                         /\ LessLimbs(shifted, PadLimbs(MulLimbs(d, k + 1, 0)))
         IN  [q |-> before.q \o PadTo(NatBits(digit), 7),
              r |-> PadLimbs(CarryLimbs(shifted, PadLimbs(MulLimbs(d, digit, 0)), -1, 0))]

\* x / y in doubles as numpy divides: x / 0 is an infinity or NaN.  Both bit
\* strings are brought to Precision bits, so that the quotient lies between
\* 1/2 and 2: its leading bit, then 8 digits of 7 bits
FDiv(x, y) ==
    IF FIsNaN(x) \/ FIsNaN(y) THEN FNaN
    ELSE IF x.kind = "inf" THEN (IF y.kind = "inf" THEN FNaN ELSE FInf(x.neg # y.neg))
    ELSE IF y.kind = "inf" THEN FZero
    ELSE IF y.m = <<>> THEN (IF x.m = <<>> THEN FNaN ELSE FInf(x.neg))
    ELSE IF x.m = <<>> THEN FZero
    ELSE LET a == Precision - Len(x.m)
             b == Precision - Len(y.m)
             num == ThreeLimbs(x.m \o Zeros(a))
             den == ThreeLimbs(y.m \o Zeros(b))
             first == IF LessLimbs(num, den) THEN 0 ELSE 1
             rem == IF first = 0 THEN num ELSE PadLimbs(CarryLimbs(num, den, -1, 0))
             res == DivDigits(rem, den, 8, <<first>>)
         IN  RoundNearestEven(x.neg # y.neg, res.q, x.e - a - y.e + b - 56,
                              \E j \in 1..3 : res.r[j] # 0)

\* long division by a natural d < 2^30, `width` bits of the dividend at a
\* time, most significant limb first: the quotient limbs and the remainder
RECURSIVE DivLimbs(_, _, _, _)
DivLimbs(limbs, d, width, r) ==
    IF limbs = <<>> THEN [q |-> <<>>, r |-> r]
    ELSE LET t == r * 2^width + limbs[Len(limbs)]
             rest == DivLimbs(SubSeq(limbs, 1, Len(limbs) - 1), d, width, t % d)
         IN  [q |-> Append(rest.q, t \div d), r |-> rest.r]

\* x / d in doubles, x a number and d a positive integer: the dividend is
\* extended by `past` zero bits so that the quotient has Precision + 2 bits
\* or more
FDivNat(x, d) ==
    LET width == 30 - Len(NatBits(d))
        need == Precision + 2 + Len(NatBits(d)) - Len(x.m)
        least == IF need < 0 THEN 0 ELSE need
        past == least + ((width - ((Len(x.m) + least) % width)) % width)
        res == DivLimbs(LimbsOf(x.m \o Zeros(past), width), d, width, 0)
    IN  RoundNearestEven(x.neg, BitsOf(res.q, width), x.e - past, res.r # 0)

\* x * k in doubles, k a small positive integer
FMulNat(x, k) == RoundNearestEven(x.neg, MulBits(x.m, k), x.e, FALSE)

FromInt(k) == Canon(k < 0, NatBits(Abs(k)), 0)

\* the double n / d of two integers held as doubles; x / 0 is an infinity
\* or NaN
FromRat(a) ==
    IF a.d = 0 THEN (IF a.n = 0 THEN FNaN ELSE FInf(a.n < 0))
    ELSE FDivNat(FromInt(a.n), a.d)

Doubles(s) == [k \in 1..Len(s) |-> FromRat(s[k])]

\* numpy's pairwise summation of a[from..to], the loop of add.reduce: plain
\* for fewer than 8 numbers, eight running sums for up to 128, halves beyond
RECURSIVE SumFrom(_, _, _, _)
SumFrom(a, res, from, to) ==
    IF from > to THEN res ELSE SumFrom(a, FAdd(res, a[from]), from + 1, to)

RECURSIVE BlockSums(_, _, _, _)
BlockSums(a, r, from, to) ==
    IF from + 7 > to THEN r
    ELSE BlockSums(a, [j \in 1..8 |-> FAdd(r[j], a[from + j - 1])], from + 8, to)

\* ((r[0] + r[1]) + (r[2] + r[3])) + ((r[4] + r[5]) + (r[6] + r[7]))
RECURSIVE TreeSum(_)
TreeSum(r) ==
    IF Len(r) = 1 THEN r[1]
    ELSE TreeSum([j \in 1..(Len(r) \div 2) |-> FAdd(r[2 * j - 1], r[2 * j])])

RECURSIVE PairwiseSum(_, _, _)
PairwiseSum(a, from, to) ==
    LET n == to - from + 1
        half == n \div 2
        n2 == half - (half % 8)
        blocks == n >= 8
    IN  IF n > 128
        THEN FAdd(PairwiseSum(a, from, from + n2 - 1), PairwiseSum(a, from + n2, to))
        ELSE SumFrom(a,
                     IF blocks
                     THEN TreeSum(BlockSums(a, [j \in 1..8 |-> a[from + j - 1]],
                                            from + 8, to))
                     ELSE FZero,
                     IF blocks THEN to - (n % 8) + 1 ELSE from,
                     to)

\* values.sum() / count; an infinite or NaN sum stays what it is
SumOver(total, count) == IF FIsFinite(total) THEN FDivNat(total, count) ELSE total

\* np.mean
FMean(a) == SumOver(PairwiseSum(a, 1, Len(a)), Len(a))

\* the rational -1, 0 or 1 of a number's sign; an infinity and NaN as they are
SignOf(x) ==
    IF FIsNaN(x) THEN NaN
    ELSE IF x.kind = "inf" THEN (IF x.neg THEN NegInf ELSE PosInf)
    ELSE Rat(FSign(x))

(***************************************************************************)
(* BaseStrategy.execute_trades: the bar loop.                              *)
(***************************************************************************)
NoPosition == [type |-> "none", entry_time |-> -1, entry_price |-> 0]

HasPosition(p) == p.type # "none"

\* timestamp and close of the bar with python index k
TimeOf(k) == k
CloseAt(k) == closes[k + 1]
SignalAt(k) == signals[k + 1]
LastIndex == Len(signals) - 1

_calculate_pnl_swapped(p, exit_price) ==
    IF p.type = "long"
    THEN Norm(p.entry_price - exit_price, p.entry_price)
    ELSE Norm(exit_price - p.entry_price, p.entry_price)

_calculate_pnl(p, exit_price) ==
    IF p.type = "long"
    THEN Norm(exit_price - p.entry_price, p.entry_price)
    ELSE Norm(p.entry_price - exit_price, p.entry_price)

ClosingTrade(p, time, price) ==
    [entry_time  |-> p.entry_time,
     exit_time   |-> time,
     entry_price |-> p.entry_price,
     exit_price  |-> price,
     type        |-> p.type,
     pnl         |-> _calculate_pnl(p, price)]

ShouldClose_OnAnySignal(p, signal) == HasPosition(p) /\ signal # 0

ShouldClose(p, signal) ==
    HasPosition(p) /\ (   (p.type = "long" /\ signal = -1)
                       \/ (p.type = "short" /\ signal = 1))

PositionAfterClose_Kept(p) == p

PositionAfterClose(p) == NoPosition

ShouldOpen_Pyramiding(p, signal) == signal # 0

ShouldOpen_AnySignal(p, signal) == ~HasPosition(p)

ShouldOpen(p, signal) == ~HasPosition(p) /\ signal # 0

NewPosition(time, price, signal) ==
    [type |-> IF signal = 1 THEN "long" ELSE "short",
     entry_time |-> time,
     entry_price |-> price]

ForceClosed_Skipped(p, ledger, time, price) == ledger

ForceClosed(p, ledger, time, price) ==
    IF HasPosition(p) THEN Append(ledger, ClosingTrade(p, time, price)) ELSE ledger

\* the bar loop with `elif` in place of the second `if`: a bar that closes
\* a position opens none
BarStep_Elif(st, time, price, signal) ==
    LET closing == ShouldClose(st.position, signal)
        opening == ~closing /\ ShouldOpen(st.position, signal)
    IN  [position |-> IF closing THEN PositionAfterClose(st.position)
                      ELSE IF opening THEN NewPosition(time, price, signal)
                      ELSE st.position,
         trades   |-> IF closing
                      THEN Append(st.trades, ClosingTrade(st.position, time, price))
                      ELSE st.trades,
         opened   |-> IF opening THEN st.opened + 1 ELSE st.opened]

\* the body of the bar loop on the locals st = [position, trades, opened]:
\* close on an opposite signal, then open when flat and the signal is non-zero
BarStep(st, time, price, signal) ==
    LET closing == ShouldClose(st.position, signal)
        ledger == IF closing
                  THEN Append(st.trades, ClosingTrade(st.position, time, price))
                  ELSE st.trades
        held == IF closing THEN PositionAfterClose(st.position) ELSE st.position
        opening == ShouldOpen(held, signal)
    IN  [position |-> IF opening THEN NewPosition(time, price, signal) ELSE held,
         trades   |-> ledger,
         opened   |-> IF opening THEN st.opened + 1 ELSE st.opened]

\* `range(1, len(signals))`: the first index the loop visits
LoopStart_FromZero(sig) == 0

LoopStart(sig) == 1

\* the loop from python index k on, over the columns cls and sig
RECURSIVE RunBars(_, _, _, _)
RunBars(cls, sig, k, st) ==
    IF k >= Len(sig) THEN st
    ELSE RunBars(cls, sig, k + 1, BarStep(st, k, cls[k + 1], sig[k + 1]))

\* execute_trades as a function of the signal frame: the returned ledger
execute_trades(cls, sig) ==
    LET st == RunBars(cls, sig, LoopStart(sig), [position |-> NoPosition, trades |-> <<>>, opened |-> 0])
    IN  ForceClosed(st.position, st.trades, Len(sig) - 1, cls[Len(cls)])

\* `trades = []` with the instance's last ledger carried over instead
NewLedger_Carried(last) == last

\* `trades = []`: the ledger of a run is a new list, whatever self.trades holds
NewLedger(last) == <<>>

\* the statements of execute_trades before the loop
BeginRun ==
    /\ pc' = "loop"
    /\ i' = LoopStart(signals)
    /\ position' = NoPosition
    /\ trades' = NewLedger(self_trades)
    /\ opened' = 0
    /\ runs' = runs + 1

\* a call of execute_trades starts: generate_signals has returned `signals`
ExecuteTradesStart ==
    /\ pc = "idle"
    /\ BeginRun
    /\ UNCHANGED <<closes, signals, self_trades, metrics, prev_trades>>
    /\ UNCHANGED searchVars
    /\ UNCHANGED <<parameters, regVars>>

\* one iteration of `for i in range(1, len(signals))`
ProcessBar ==
    /\ pc = "loop"
    /\ i < Len(signals)
    /\ LET st == BarStep([position |-> position, trades |-> trades, opened |-> opened],
                          TimeOf(i), CloseAt(i), SignalAt(i))
       IN  /\ trades' = st.trades
           /\ position' = st.position
           /\ opened' = st.opened
    /\ i' = i + 1
    /\ UNCHANGED <<closes, signals, pc, self_trades, metrics, runs, prev_trades>>
    /\ UNCHANGED searchVars
    /\ UNCHANGED <<parameters, regVars>>

\* after the loop: force-close, self.trades = trades, return trades
ExecuteTradesReturn ==
    /\ pc = "loop"
    /\ i >= Len(signals)
    /\ trades' = ForceClosed(position, trades, TimeOf(LastIndex), CloseAt(LastIndex))
    /\ self_trades' = trades'
    /\ prev_trades' = self_trades
    /\ pc' = "done"
    /\ UNCHANGED <<closes, signals, i, position, opened, metrics, runs>>
    /\ UNCHANGED searchVars
    /\ UNCHANGED <<parameters, regVars>>

(***************************************************************************)
(* calculate_performance of src/src/strategy_base.py.                      *)
(* sharpe_ratio = mean/std needs a square root: the model carries the sign *)
(* of the program's value (-1, 0 or 1); its zero cases are the code's.     *)
(***************************************************************************)
PnlOf(ledger) == [k \in 1..Len(ledger) |-> ledger[k].pnl]

RMean(s) == RDiv(RSum(s), Rat(Len(s)))

AllFinite(values) == \A k \in 1..Len(values) : FIsFinite(values[k])

\* np.std(values) == 0: the squares of values - mean are averaged; the result
\* is 0 exactly when every value is the mean, and NaN when a value is not
\* finite
StdIsZero(values) ==
    /\ AllFinite(values)
    /\ LET avg == FMean(values)
       IN  \A k \in 1..Len(values) : values[k] = avg

\* pandas skips NaN entries (skipna): NaN is replaced by 0 in the sum, by 1
\* in the product, and the count is the number of the other entries
NotNaN(x) == ~FIsNaN(x)
Valid(values) == SelectSeq(values, NotNaN)
ZeroForNaN(values) ==
    [k \in 1..Len(values) |-> IF FIsNaN(values[k]) THEN FZero ELSE values[k]]

\* Series.mean(): NaN when no entry is left
SeriesMean(values) ==
    IF Valid(values) = <<>> THEN FNaN
    ELSE SumOver(PairwiseSum(ZeroForNaN(values), 1, Len(values)), Len(Valid(values)))

\* Series.std() (ddof = 1) as "zero", "nan" or "positive": NaN with fewer
\* than two entries left or an infinite one; else avg = sum / count and the
\* squares of avg - values are summed, 0 exactly when every value is avg
SeriesStd(values) ==
    LET valid == Valid(values)
    IN  IF Len(valid) < 2 \/ ~AllFinite(valid) THEN "nan"
        ELSE LET avg == SeriesMean(values)
             IN  IF \A k \in 1..Len(valid) : valid[k] = avg THEN "zero" ELSE "positive"

IsWin(p) == RGt(p, Zero)
IsLoss(p) == RLt(p, Zero)
IsNotWin(p) == RLe(p, Zero)

\* Series.prod(): NaN entries count as 1
SeriesProd(s) == RProd([k \in 1..Len(s) |-> IF IsNaN(s[k]) THEN One ELSE s[k]])

\* (1 + returns).cumprod(): NaN where the entry is NaN, the product of the
\* other entries so far elsewhere
CumProd(s) ==
    [k \in 1..Len(s) |->
        IF IsNaN(s[k]) THEN NaN
        ELSE SeriesProd([j \in 1..k |-> RAdd(One, s[j])])]

\* np.cumsum(profits): the running sum in doubles, one addition per entry
RECURSIVE CumSum(_)
CumSum(s) ==
    IF Len(s) <= 1 THEN Doubles(s)
    ELSE LET front == CumSum(SubSeq(s, 1, Len(s) - 1))
         IN  Append(front, FAdd(front[Len(front)], FromRat(s[Len(s)])))

\* Series.expanding().max(): the largest entry so far; the window functions
\* of pandas take an infinite entry for NaN, NaN entries are skipped, and the
\* result is NaN while there is no other entry
RECURSIVE ExpandingMax(_)
ExpandingMax(s) ==
    IF s = <<>> THEN <<>>
    ELSE LET front == ExpandingMax(SubSeq(s, 1, Len(s) - 1))
             before == IF front = <<>> THEN NaN ELSE front[Len(front)]
             last == s[Len(s)]
         IN  Append(front, IF ~IsFinite(last) THEN before
                           ELSE IF IsNaN(before) THEN last
                           ELSE RMax(before, last))

\* Series.min(): NaN entries are skipped; NaN when nothing is left
RECURSIVE MinSkipNaN(_)
MinSkipNaN(s) ==
    IF s = <<>> THEN NaN
    ELSE LET rest == MinSkipNaN(Tail(s))
         IN  IF IsNaN(Head(s)) THEN rest
             ELSE IF IsNaN(rest) THEN Head(s)
             ELSE IF RLt(rest, Head(s)) THEN rest ELSE Head(s)

BaseMaxDrawdown(returns) ==
    LET cumulative_returns == CumProd(returns)
        rolling_max == ExpandingMax(cumulative_returns)
        drawdowns == [k \in 1..Len(returns) |->
                        RDiv(RSub(cumulative_returns[k], rolling_max[k]), rolling_max[k])]
    IN  IF returns = <<>> THEN Zero ELSE RAbs(MinSkipNaN(drawdowns))

\* returns.mean() / returns.std() if returns.std() != 0 else 0, on the
\* doubles of the pnl: a NaN std is not 0 and makes the quotient NaN
MeanOverSeriesStd(mean, std) ==
    IF std = "zero" THEN Zero
    ELSE IF std = "nan" THEN NaN
    ELSE SignOf(mean)

BaseSharpe(returns) ==
    IF Len(returns) > 1
    THEN MeanOverSeriesStd(SeriesMean(Doubles(returns)), SeriesStd(Doubles(returns)))
    ELSE Zero

BaseProfitFactor(pnl) ==
    LET profits == SelectSeq(pnl, IsWin)
        neg == SelectSeq(pnl, IsLoss)
        losses == [k \in 1..Len(neg) |-> RAbs(neg[k])]
    IN  IF losses # <<>> THEN RDiv(RSum(profits), RSum(losses)) ELSE Zero

calculate_performance(ledger) ==
    IF ledger = <<>>
    THEN [total_return    |-> Zero,
          compound_return |-> Zero,
          total_trades    |-> Zero,
          win_rate        |-> Zero,
          max_drawdown    |-> Zero,
          sharpe_ratio    |-> Zero,
          profit_factor   |-> Zero]
    ELSE LET pnl == PnlOf(ledger)
             total_trades == Len(ledger)
             winning_trades == Len(SelectSeq(pnl, IsWin))
         IN  [total_return    |-> RSum(pnl),
              compound_return |-> RSub(SeriesProd([k \in 1..Len(pnl) |-> RAdd(One, pnl[k])]),
                                       One),
              total_trades    |-> Rat(total_trades),
              win_rate        |-> Norm(winning_trades, total_trades),
              max_drawdown    |-> BaseMaxDrawdown(pnl),
              sharpe_ratio    |-> BaseSharpe(pnl),
              profit_factor   |-> BaseProfitFactor(pnl)]

(***************************************************************************)
(* calculate_performance of src/src/strategy_management.py and its         *)
(* helpers.  sharpe_ratio and sortino_ratio carry the sign of the          *)
(* program's value mean/std * sqrt(252), or the value when it is infinite  *)
(* or NaN; max_drawdown and calmar_ratio are doubles, since the rounding   *)
(* of the cumulative sum decides `peak != 0`.                              *)
(***************************************************************************)
TradingDays == 252
RiskFreeRate == Norm(2, 100)

\* returns - risk_free_rate/252 on the doubles of the profits
Excess(profits) ==
    LET daily == FDivNat(FromRat(RiskFreeRate), TradingDays)
    IN  [k \in 1..Len(profits) |-> FSub(FromRat(profits[k]), daily)]

\* peak and max_dd after the first k passes of the loop over the cumulative
\* sum: a NaN peak is not 0, and max(max_dd, dd) keeps max_dd unless
\* dd > max_dd
RECURSIVE DrawdownLoop(_, _)
DrawdownLoop(cumulative, k) ==
    IF k = 0 THEN [peak |-> cumulative[1], max_dd |-> FZero]
    ELSE LET before == DrawdownLoop(cumulative, k - 1)
             value == cumulative[k]
             pk == IF FGreater(value, before.peak) THEN value ELSE before.peak
             dd == IF ~FIsZero(pk) THEN FDiv(FSub(pk, value), pk) ELSE FZero
         IN  [peak |-> pk,
              max_dd |-> IF FGreater(dd, before.max_dd) THEN dd ELSE before.max_dd]

_calculate_max_drawdown(profits) ==
    LET cumulative == CumSum(profits)
    IN  DrawdownLoop(cumulative, Len(cumulative)).max_dd

\* 0 if np.std(spread) == 0, else np.mean(values) / np.std(spread) *
\* np.sqrt(252): np.std of a list with an infinite or NaN entry is NaN, which
\* is not 0
MeanOverStd(values, spread) ==
    IF StdIsZero(spread) THEN Zero
    ELSE IF ~AllFinite(spread) THEN NaN
    ELSE SignOf(FMean(values))

_calculate_sharpe_ratio(profits) ==
    IF profits = <<>> THEN Zero
    ELSE MeanOverStd(Excess(profits), Excess(profits))

\* excess_returns < 0 leaves NaN and +inf out of the downside
_calculate_sortino_ratio(profits) ==
    IF profits = <<>> THEN Zero
    ELSE LET downside_returns == SelectSeq(Excess(profits), FIsNegative)
         IN  IF Len(downside_returns) = 0 THEN Zero
             ELSE MeanOverStd(Excess(profits), downside_returns)

_calculate_calmar_ratio(total_return, profits) ==
    LET max_dd == _calculate_max_drawdown(profits)
    IN  IF FIsZero(max_dd) THEN FZero ELSE FDiv(total_return, max_dd)

RECURSIVE ConsecutiveLoop(_, _, _, _, _)
ConsecutiveLoop(profits, is_win, k, current, best) ==
    IF k > Len(profits) THEN best
    ELSE IF (IsWin(profits[k]) /\ is_win) \/ (IsNotWin(profits[k]) /\ ~is_win)
         THEN ConsecutiveLoop(profits, is_win, k + 1, current + 1,
                              IF current + 1 > best THEN current + 1 ELSE best)
         ELSE ConsecutiveLoop(profits, is_win, k + 1, 0, best)

_calculate_max_consecutive(profits, is_win) ==
    ConsecutiveLoop(profits, is_win, 1, 0, 0)

\* np.mean: NaN for an empty list
NpMean(s) == IF s = <<>> THEN NaN ELSE RMean(s)

MgmtProfitFactor(profits) ==
    LET winning_trades == SelectSeq(profits, IsWin)
        losing_trades == SelectSeq(profits, IsNotWin)
    IN  IF losing_trades # <<>> /\ winning_trades # <<>>
        THEN RAbs(RDiv(RSum(winning_trades), RSum(losing_trades)))
        ELSE Zero

\* total_return = np.prod([1 + p for p in profits]) - 1
MgmtTotalReturn(profits) ==
    RSub(RProd([k \in 1..Len(profits) |-> RAdd(One, profits[k])]), One)

\* the double of total_return that the calmar quotient divides: np.prod
\* multiplies entry by entry
RECURSIVE NpProd(_)
NpProd(values) ==
    IF values = <<>> THEN FromInt(1)
    ELSE FMul(NpProd(SubSeq(values, 1, Len(values) - 1)), values[Len(values)])

TotalReturnDouble(profits) ==
    FSub(NpProd([k \in 1..Len(profits) |-> FAdd(FromInt(1), FromRat(profits[k]))]),
         FromInt(1))

mgmt_calculate_performance(ledger) ==
    IF ledger = <<>>
    THEN [total_return           |-> Zero,
          total_trades           |-> Zero,
          win_rate               |-> Zero,
          profit_factor          |-> Zero,
          avg_profit             |-> Zero,
          max_drawdown           |-> FZero,
          sharpe_ratio           |-> Zero,
          sortino_ratio          |-> Zero,
          calmar_ratio           |-> FZero,
          avg_win                |-> Zero,
          avg_loss               |-> Zero,
          max_consecutive_wins   |-> Zero,
          max_consecutive_losses |-> Zero,
          risk_reward_ratio      |-> Zero]
    ELSE LET profits == PnlOf(ledger)
             winning_trades == SelectSeq(profits, IsWin)
             losing_trades == SelectSeq(profits, IsNotWin)
             total_return == MgmtTotalReturn(profits)
         IN  [total_return           |-> total_return,
              total_trades           |-> Rat(Len(ledger)),
              win_rate               |-> Norm(Len(winning_trades), Len(profits)),
              profit_factor          |-> MgmtProfitFactor(profits),
              avg_profit             |-> NpMean(profits),
              max_drawdown           |-> _calculate_max_drawdown(profits),
              sharpe_ratio           |-> _calculate_sharpe_ratio(profits),
              sortino_ratio          |-> _calculate_sortino_ratio(profits),
              calmar_ratio           |-> _calculate_calmar_ratio(TotalReturnDouble(profits),
                                                                 profits),
              avg_win                |-> IF winning_trades # <<>>
                                         THEN NpMean(winning_trades) ELSE Zero,
              avg_loss               |-> IF losing_trades # <<>>
                                         THEN NpMean(losing_trades) ELSE Zero,
              max_consecutive_wins   |-> Rat(_calculate_max_consecutive(profits, TRUE)),
              max_consecutive_losses |-> Rat(_calculate_max_consecutive(profits, FALSE)),
              risk_reward_ratio      |-> IF losing_trades # <<>>
                                         THEN RAbs(RDiv(NpMean(winning_trades),
                                                        NpMean(losing_trades)))
                                         ELSE Zero]

\* strategy.calculate_performance() on an instance derived from strategy_base
CalculatePerformance ==
    /\ pc = "done"
    /\ metrics' = calculate_performance(self_trades)
    /\ pc' = "perf"
    /\ UNCHANGED <<closes, signals, i, position, trades, opened, self_trades,
                    runs, prev_trades>>
    /\ UNCHANGED searchVars
    /\ UNCHANGED <<parameters, regVars>>

\* the same call on an instance derived from strategy_management
MgmtCalculatePerformance ==
    /\ pc = "done"
    /\ metrics' = mgmt_calculate_performance(self_trades)
    /\ pc' = "perf_mgmt"
    /\ UNCHANGED <<closes, signals, i, position, trades, opened, self_trades,
                    runs, prev_trades>>
    /\ UNCHANGED searchVars
    /\ UNCHANGED <<parameters, regVars>>

(***************************************************************************)
(* The moving-average-cross strategy (src/strategies/ma_cross_strategy.py) *)
(* on a close column.  The strategy class handed to the optimizer has      *)
(* MACrossStrategy's signal rule and validity predicate and declares the   *)
(* parameter space fast_ma in 1..MaxFast, slow_ma in 2..MaxSlow, step 1.   *)
(***************************************************************************)
\* params.get(name, default) of a parameter dictionary
Get(params, name, default) ==
    IF name \in DOMAIN params THEN params[name] ELSE default

\* df['close'].rolling(window).mean(): NaN until the window is full
RollingMean_Partial(cls, window) ==
    [k \in 1..Len(cls) |->
        LET have == IF k < window THEN k ELSE window
        IN  RDiv(RSum([j \in 1..have |-> Rat(cls[k - have + j])]), Rat(have))]

RollingMean(cls, window) ==
    [k \in 1..Len(cls) |->
        IF k < window THEN NaN
        ELSE RDiv(RSum([j \in 1..window |-> Rat(cls[k - window + j])]), Rat(window))]

\* the windows are self.parameters.get('fast_ma', 10) and
\* self.parameters.get('slow_ma', 20)
generate_signals(cls, params) ==
    LET fast_ma == RollingMean(cls, Get(params, "fast_ma", 10))
        slow_ma == RollingMean(cls, Get(params, "slow_ma", 20))
        trend == [k \in 1..Len(cls) |-> RSub(fast_ma[k], slow_ma[k])]
        prev_trend == [k \in 1..Len(cls) |-> IF k = 1 THEN NaN ELSE trend[k - 1]]
    IN  [k \in 1..Len(cls) |->
            IF RLt(prev_trend[k], Zero) /\ RGt(trend[k], Zero) THEN 1
            ELSE IF RGt(prev_trend[k], Zero) /\ RLt(trend[k], Zero) THEN -1
            ELSE 0]

\* params.get('fast_ma', 0) < params.get('slow_ma', 0)
validate_parameters(params) ==
    Get(params, "fast_ma", 0) < Get(params, "slow_ma", 0)

parameter_space ==
    [fast_ma : 1..MaxFast, slow_ma : 2..MaxSlow]

(***************************************************************************)
(* The data frame of the optimizer.  A frame is its column names, its      *)
(* close column and whether it is the optimizer's own object (shared) or   *)
(* a copy made by a trial.                                                 *)
(***************************************************************************)
Frame(cols, cls) == [columns |-> cols, close |-> cls, shared |-> TRUE]

DfCopy_Alias(df) == df

\* df = df.copy() in calculate_indicators
DfCopy(df) == [df EXCEPT !.shared = FALSE]

\* the frame calculate_indicators returns: the copy with the two averages
calculate_indicators(df) ==
    [DfCopy(df) EXCEPT !.columns = @ \cup {"fast_ma", "slow_ma"}]

\* the frame generate_signals returns
SignalsFrame(df) ==
    [calculate_indicators(df) EXCEPT !.columns = @ \cup {"signal", "trend", "prev_trend"}]

\* the columns of the optimizer's data after a trial worked on frame df
ColumnsAfter(df) ==
    IF SignalsFrame(df).shared THEN SignalsFrame(df).columns ELSE df.columns

\* the parameters strategy_class({}) works with: self.parameters.get('fast_ma', 10)
\* and self.parameters.get('slow_ma', 20)
DefaultParams == [fast_ma |-> 10, slow_ma |-> 20]

\* best_params = None
NoParams == [fast_ma |-> 0, slow_ma |-> 0]

\* the exception a simulation with these parameters raises, "none" if it
\* returns: self.parameters.get on None, df['close'] without a close column
SimException(params) ==
    IF params = NoParams THEN "AttributeError"
    ELSE IF "close" \notin data_columns THEN "KeyError"
    ELSE "none"

SimRaises(params) == SimException(params) # "none"

\* strategy = self.strategy_class(params); trades = strategy.execute_trades(data)
SimLedger(params) == execute_trades(closes, generate_signals(closes, params))

TrialFailure_Scored(exc) == [raised |-> FALSE, exception |-> exc]

\* `except Exception as e: ... raise` of execute_trades; neither objective
\* nor study.optimize catches it
TrialFailure(exc) == [raised |-> TRUE, exception |-> exc]

(***************************************************************************)
(* The declared parameter space and the grid of _grid_search.  A strategy  *)
(* class declares each parameter with min, max, step and a type, 'int' or  *)
(* 'float' (strategy_base.py:49-62).  The classes handed to the optimizer  *)
(* declare both fast_ma and slow_ma as 'int', as MACrossStrategy does, or  *)
(* one of the two as 'float'.                                              *)
(***************************************************************************)
ParameterSpaceOf(fast_type, slow_type) ==
    [fast_ma |-> [min |-> 1, max |-> MaxFast, step |-> 1, type |-> fast_type],
     slow_ma |-> [min |-> 2, max |-> MaxSlow, step |-> 1, type |-> slow_type]]

param_config == ParameterSpaceOf("int", "int")

StrategySpaces ==
    {ParameterSpaceOf("int", "int"), ParameterSpaceOf("int", "float"),
     ParameterSpaceOf("float", "int")}

\* the names of a parameter dictionary in the order of its entries
ParamNames(dict) ==
    SelectSeq(<<"fast_ma", "slow_ma">>, LAMBDA name : name \in DOMAIN dict)

\* range(config['min'], config['max'] + 1, config.get('step', 1))
RangeSeq(config) ==
    [k \in 1..(((config.max - config.min) \div config.step) + 1) |->
        config.min + (k - 1) * config.step]

\* `if config['type'] == 'int': param_grid[name] = range(...)`: a parameter
\* of another type gets no entry
param_grid(space) ==
    [name \in {n \in DOMAIN space : space[n].type = "int"} |-> RangeSeq(space[name])]

\* itertools.product(*param_values) zipped with the names of the grid: the
\* last parameter varies fastest, and the product of no ranges is one empty
\* dictionary
RECURSIVE ProductOver(_, _)
ProductOver(grid, names) ==
    IF names = <<>> THEN << <<>> >>
    ELSE LET values == grid[Head(names)]
             rest == ProductOver(grid, Tail(names))
         IN  [k \in 1..(Len(values) * Len(rest)) |->
                 (Head(names) :> values[((k - 1) \div Len(rest)) + 1])
                     @@ rest[((k - 1) % Len(rest)) + 1]]

Product(grid) == ProductOver(grid, ParamNames(grid))

_generate_combinations_Unfiltered(grid) == Product(grid)

_generate_combinations(grid) == SelectSeq(Product(grid), validate_parameters)

(***************************************************************************)
(* The two objectives of src/src/strategy_optimizer.py.                    *)
(***************************************************************************)
MinTrades == 10
GridMinTrades == 10

\* metrics['total_trades'] and metrics['total_return'] of the record
\* strategy.calculate_performance() returns for a ledger (the two entries
\* the optimizer reads; the same values as calculate_performance(ledger) has)
TotalTrades(ledger) == Rat(Len(ledger))
TotalReturn(ledger) == IF ledger = <<>> THEN Zero ELSE RSum(PnlOf(ledger))

_objective_func_MoreThanTen(params) ==
    LET ledger == SimLedger(params)
    IN  IF RLe(TotalTrades(ledger), Rat(GridMinTrades)) THEN NegInf
        ELSE TotalReturn(ledger)

\* _objective_func, the objective of the grid search
_objective_func(params) ==
    LET ledger == SimLedger(params)
    IN  IF RLt(TotalTrades(ledger), Rat(GridMinTrades)) THEN NegInf
        ELSE TotalReturn(ledger)

\* the argument n_trials of optimize: None, or an int
NoneTrials == [given |-> FALSE, value |-> 0]
Given(k) == [given |-> TRUE, value |-> k]

\* `if n_trials is None: n_trials = 100`
DefaultTrials == 100
EffectiveTrials(n) == IF ~n.given THEN DefaultTrials ELSE n.value

TrialBudgetLeft_OneMore(st, n) == Len(st) <= n.value

\* study.optimize(..., n_trials=n_trials) starts another trial
TrialBudgetLeft(st, n) == Len(st) < n.value

NoTrial == [pc |-> "none", params |-> [fast_ma |-> 0, slow_ma |-> 0],
            trades |-> <<>>, sims |-> 0]

\* the price series the searches of the model run on: two on which some
\* parameter sets trade at least ten times, one on which none does
SeriesA == <<2, 1, 3, 1, 3, 1, 3, 1, 3, 1, 3, 1, 3>>
SeriesT == <<1, 2, 3, 1, 3, 1, 3, 1, 3, 1, 3, 1, 3>>
SeriesB == <<3, 2, 1, 2, 3, 4, 3, 2>>

SearchData == {SeriesA, SeriesT, SeriesB}

\* the frames handed to StrategyOptimizer: the price series, and one frame
\* that has no close column
SearchFrames ==
    {Frame({"close"}, cls) : cls \in SearchData}
        \cup {Frame({"open"}, SeriesB)}

ObjectiveRejects_Never(params) == FALSE

\* `if not self.strategy_class(params).validate_parameters(params)`
ObjectiveRejects(params) == ~validate_parameters(params)

\* the value _objective returns for the ledger of a simulated trial
ObjectiveValue(ledger) ==
    IF RLt(TotalTrades(ledger), Rat(MinTrades)) THEN NegInf ELSE TotalReturn(ledger)

\* _objective as a function of the proposed parameter set
_objective(params) ==
    IF ObjectiveRejects(params) THEN NegInf ELSE ObjectiveValue(SimLedger(params))

(***************************************************************************)
(* StrategyOptimizer._grid_search.                                         *)
(***************************************************************************)
NoResult == [status |-> "running"]

\* `if value > best_value: best_value = value; best_params = params`
GridStep(best, params, value) ==
    IF RGt(value, best.best_value)
    THEN [best_value |-> value, best_params |-> params]
    ELSE best

\* the loop of _grid_search over rows of a combination and the value
\* _objective_func has for it, in the given order
RECURSIVE GridLoop(_, _, _)
GridLoop(rows, k, best) ==
    IF k > Len(rows) THEN best
    ELSE GridLoop(rows, k + 1, GridStep(best, rows[k].params, rows[k].value))

\* the loop `for params in self._generate_combinations(param_grid)` has a
\* combination left
GridEvaluateEnabled ==
    /\ pc = "grid"
    /\ Len(trials) < Len(_generate_combinations(param_grid(self_parameter_space)))

\* one iteration of `for params in self._generate_combinations(param_grid)`
GridEvaluate ==
    /\ GridEvaluateEnabled
    /\ LET params == _generate_combinations(param_grid(self_parameter_space))[Len(trials) + 1]
           failure == TrialFailure(SimException(params))
           value == IF SimRaises(params) THEN NegInf ELSE _objective_func(params)
           best == GridStep([best_value |-> best_value, best_params |-> best_params],
                            params, value)
       IN  /\ sim_calls' = Append(sim_calls, [params |-> params, site |-> "_objective_func"])
           /\ IF SimRaises(params) /\ failure.raised
              THEN /\ pc' = "raised"
                   /\ result' = [status |-> "raised", exception |-> failure.exception,
                                 during |-> "trial"]
                   /\ UNCHANGED <<trials, best_value, best_params, data_columns>>
              ELSE /\ trials' = Append(trials, [params |-> params, value |-> value])
                   /\ best_value' = best.best_value
                   /\ best_params' = best.best_params
                   /\ data_columns' = IF SimRaises(params) THEN data_columns
                                      ELSE ColumnsAfter(Frame(data_columns, closes))
                   /\ UNCHANGED <<pc, result>>
    /\ UNCHANGED <<study, trial, twin>>
    /\ UNCHANGED <<cfgVars, diverseVars, stratVars>>
    /\ UNCHANGED regVars

\* the loop over the combinations has ended
GridReturnEnabled ==
    /\ pc = "grid"
    /\ Len(trials) = Len(_generate_combinations(param_grid(self_parameter_space)))

\* lines 57-85: the final backtest with best_params, self.backtest_results
\* with the record of strategy.calculate_performance() as its
\* 'performance_metrics', and the returned dictionary
GridReturn ==
    /\ GridReturnEnabled
    /\ sim_calls' = Append(sim_calls, [params |-> best_params, site |-> "backtest"])
    /\ IF SimRaises(best_params)
       THEN /\ pc' = "raised"
            /\ result' = [status |-> "raised", exception |-> SimException(best_params),
                          during |-> "backtest"]
            /\ UNCHANGED <<data_columns, metrics>>
       ELSE /\ pc' = "returned"
            /\ result' = [best_params |-> best_params, best_value |-> best_value,
                          trials |-> trials]
            /\ data_columns' = ColumnsAfter(Frame(data_columns, closes))
            /\ metrics' = calculate_performance(SimLedger(best_params))
    /\ UNCHANGED <<study, trial, twin, best_params>>
    /\ UNCHANGED <<cfgVars, gridVars, diverseVars>>
    /\ UNCHANGED <<signals, i, position, trades, opened, self_trades, parameters,
                    runs, prev_trades>>
    /\ UNCHANGED regVars

(***************************************************************************)
(* StrategyOptimizer._bayesian_optimization: study.optimize calls          *)
(* _objective once per trial.                                              *)
(***************************************************************************)
\* optuna.create_study(direction='maximize'): no sampler and no seed are given
SamplerSeed == "None"

\* what a second run of the same configuration can propose where this run
\* proposes params
TwinProposals(params) ==
    IF SamplerSeed = "None" THEN parameter_space ELSE {params}

\* params = self._suggest_parameters(trial): the sampler proposes any point
\* of the parameter space
SuggestParameters ==
    /\ pc = "search"
    /\ trial.pc = "none"
    /\ TrialBudgetLeft(study, n_trials)
    /\ \E params \in parameter_space :
          /\ trial' = [NoTrial EXCEPT !.pc = "suggested", !.params = params]
          /\ \E other \in TwinProposals(params) : twin' = (twin /\ other = params)
    /\ UNCHANGED <<study, sim_calls>>
    /\ UNCHANGED <<pc, data_columns, result, best_params>>
    /\ UNCHANGED <<cfgVars, gridVars, diverseVars, stratVars>>
    /\ UNCHANGED regVars

\* validation fails: return float('-inf'); the study records the trial
ObjectiveReject ==
    /\ pc = "search"
    /\ trial.pc = "suggested"
    /\ ObjectiveRejects(trial.params)
    /\ study' = Append(study, [params |-> trial.params, value |-> NegInf,
                               sims |-> trial.sims])
    /\ trial' = NoTrial
    /\ UNCHANGED sim_calls
    /\ UNCHANGED <<pc, data_columns, result, best_params, twin>>
    /\ UNCHANGED <<cfgVars, gridVars, diverseVars, stratVars>>
    /\ UNCHANGED regVars

\* validation passes: strategy.execute_trades(data)
ObjectiveSimulateEnabled ==
    /\ pc = "search"
    /\ trial.pc = "suggested"
    /\ ~ObjectiveRejects(trial.params)

ObjectiveSimulate ==
    /\ ObjectiveSimulateEnabled
    /\ sim_calls' = Append(sim_calls, [params |-> trial.params, site |-> "_objective"])
    /\ LET failure == TrialFailure(SimException(trial.params))
       IN  IF ~SimRaises(trial.params)
           THEN /\ trial' = [trial EXCEPT !.pc = "simulated",
                                          !.trades = SimLedger(trial.params),
                                          !.sims = trial.sims + 1]
                /\ data_columns' = ColumnsAfter(Frame(data_columns, closes))
                /\ UNCHANGED <<study, pc, result>>
           ELSE IF failure.raised
           THEN /\ trial' = [trial EXCEPT !.pc = "failed", !.sims = trial.sims + 1]
                /\ pc' = "raised"
                /\ result' = [status |-> "raised", exception |-> failure.exception,
                              during |-> "trial"]
                /\ UNCHANGED <<study, data_columns>>
           ELSE /\ study' = Append(study, [params |-> trial.params, value |-> NegInf,
                                           sims |-> trial.sims + 1])
                /\ trial' = NoTrial
                /\ UNCHANGED <<pc, result, data_columns>>
    /\ UNCHANGED <<best_params, twin>>
    /\ UNCHANGED <<cfgVars, gridVars, diverseVars, stratVars>>
    /\ UNCHANGED regVars

\* calculate_performance, the minimum-activity test and the returned value
ObjectiveReturnEnabled ==
    /\ pc = "search"
    /\ trial.pc = "simulated"

ObjectiveReturn ==
    /\ ObjectiveReturnEnabled
    /\ study' = Append(study, [params |-> trial.params,
                               value |-> ObjectiveValue(trial.trades),
                               sims |-> trial.sims])
    /\ trial' = NoTrial
    /\ UNCHANGED sim_calls
    /\ UNCHANGED <<pc, data_columns, result, best_params, twin>>
    /\ UNCHANGED <<cfgVars, gridVars, diverseVars, stratVars>>
    /\ UNCHANGED regVars

(***************************************************************************)
(* The end of _bayesian_optimization: the final backtest of the best       *)
(* trial, _get_diverse_trials and the returned dictionary.                 *)
(***************************************************************************)
TopK == 5

\* study.best_trial: the first recorded trial no other trial's value exceeds
BestIndex(st) ==
    LET maximal == {k \in 1..Len(st) :
                       \A j \in 1..Len(st) : ~RGt(st[j].value, st[k].value)}
    IN  CHOOSE k \in maximal : \A j \in maximal : k <= j

BestTrial(st) == st[BestIndex(st)]

\* int(round(param_value)) of an int-typed parameter read from the frame
IntRound(v) == v

ParamKey_FastOnly(params) == << <<"fast_ma", IntRound(params.fast_ma)>> >>

\* param_key = tuple(sorted(params.items()))
ParamKey(params) ==
    << <<"fast_ma", IntRound(params.fast_ma)>>, <<"slow_ma", IntRound(params.slow_ma)>> >>

\* format(x, ".1f") of a double x >= 0: the number of tenths shown, which is
\* the exact value of 10 * x rounded to the nearest integer, halves to the
\* even neighbour
TenthsOf(x) ==
    LET y == MulBits(x.m, 10)
        k == 0 - x.e
        whole == IF k <= 0 THEN BitsNat(y \o Zeros(x.e))
                 ELSE IF Len(y) > k THEN BitsNat(SubSeq(y, 1, Len(y) - k)) ELSE 0
        frac == IF k <= 0 THEN <<>>
                ELSE IF Len(y) >= k THEN SubSeq(y, Len(y) - k + 1, Len(y))
                ELSE PadTo(y, k)
        guard == frac # <<>> /\ frac[1] = 1
        rest == Len(frac) > 1 /\ HasOne(SubSeq(frac, 2, Len(frac)))
    IN  IF guard /\ (rest \/ whole % 2 = 1) THEN whole + 1 ELSE whole

\* f"{(winning_trades/total_trades*100):.1f}%" if total_trades > 0 else "0%":
\* the number of tenths of a percent the text shows, the quotient and the
\* product being doubles
WinRateText(winning_trades, total_trades) ==
    IF total_trades > 0
    THEN [format |-> "%.1f%%",
          tenths |-> TenthsOf(FMulNat(FDivNat(FromInt(winning_trades), total_trades), 100))]
    ELSE [format |-> "0%", tenths |-> 0]

\* the entry appended to top_trials for a parameter set
TopEntry(params) ==
    LET test_trades == SimLedger(params)
        total_trades == Len(test_trades)
        winning_trades == Len(SelectSeq(PnlOf(test_trades), IsWin))
    IN  [params |-> params,
         value |-> TotalReturn(test_trades),
         trade_stats |-> [total_trades |-> total_trades,
                          winning_trades |-> winning_trades,
                          losing_trades |-> total_trades - winning_trades,
                          win_rate |-> WinRateText(winning_trades, total_trades)]]

\* the rows trials_df.sort_values('value', ascending=False) can yield next:
\* an unseen row of largest value; the order of rows of equal value is not
\* fixed by the (unstable) sort
NextRows(st, seen) ==
    {r \in (1..Len(st)) \ seen :
        \A q \in (1..Len(st)) \ seen : ~RGt(st[q].value, st[r].value)}

\* study.optimize has returned: no trial is running and none is left
BayesianBacktestEnabled ==
    /\ pc = "search"
    /\ trial.pc = "none"
    /\ ~TrialBudgetLeft(study, n_trials)

\* lines 95-118: best_params = self._suggest_parameters(study.best_trial),
\* the final backtest and self.backtest_results with the record of
\* strategy.calculate_performance() as its 'performance_metrics'; the run
\* ends when the study holds n_trials trials
BayesianBacktest ==
    /\ BayesianBacktestEnabled
    /\ best_params' = BestTrial(study).params
    /\ sim_calls' = Append(sim_calls, [params |-> BestTrial(study).params,
                                      site |-> "backtest"])
    /\ IF SimRaises(BestTrial(study).params)
       THEN /\ pc' = "raised"
            /\ result' = [status |-> "raised",
                          exception |-> SimException(BestTrial(study).params),
                          during |-> "backtest"]
            /\ UNCHANGED <<data_columns, metrics>>
       ELSE /\ pc' = "diverse"
            /\ data_columns' = ColumnsAfter(Frame(data_columns, closes))
            /\ metrics' = calculate_performance(SimLedger(BestTrial(study).params))
            /\ UNCHANGED result
    /\ UNCHANGED <<study, trial, twin>>
    /\ UNCHANGED <<cfgVars, gridVars, diverseVars>>
    /\ UNCHANGED <<signals, i, position, trades, opened, self_trades, parameters,
                    runs, prev_trades>>
    /\ UNCHANGED regVars

\* one iteration of the loop of _get_diverse_trials
DiverseRow ==
    /\ pc = "diverse"
    /\ \E r \in NextRows(study, visited) :
          LET params == [fast_ma |-> IntRound(study[r].params.fast_ma),
                         slow_ma |-> IntRound(study[r].params.slow_ma)]
              param_key == ParamKey(params)
          IN  /\ visited' = visited \cup {r}
              /\ IF param_key \notin used_params /\ Len(top_trials) < TopK
                 THEN /\ top_trials' = Append(top_trials, TopEntry(params))
                      /\ used_params' = used_params \cup {param_key}
                      /\ sim_calls' = Append(sim_calls, [params |-> params,
                                                      site |-> "_get_diverse_trials"])
                      /\ data_columns' = ColumnsAfter(Frame(data_columns, closes))
                 ELSE UNCHANGED <<top_trials, used_params, sim_calls, data_columns>>
    /\ UNCHANGED <<study, trial, twin, pc, result, best_params>>
    /\ UNCHANGED <<cfgVars, gridVars, stratVars>>
    /\ UNCHANGED regVars

\* lines 120-124: the returned dictionary
BayesianReturn ==
    /\ pc = "diverse"
    /\ visited = 1..Len(study)
    /\ pc' = "returned"
    /\ result' = [best_params |-> BestTrial(study).params,
                  best_value |-> BestTrial(study).value,
                  top_trials |-> top_trials]
    /\ UNCHANGED <<study, trial, twin, sim_calls, data_columns, best_params>>
    /\ UNCHANGED <<cfgVars, gridVars, diverseVars, stratVars>>
    /\ UNCHANGED regVars

(***************************************************************************)
(* StrategyOptimizer of src/src/optimization.py, the second optimizer of   *)
(* the repository.  It is given a strategy class of strategy_management.py *)
(* (its parameters are a StrategyParameters object), has no optimizer_type *)
(* ("none") and two entry points, optimize and optimize_strategy.  The     *)
(* study, the simulation calls, the top-trials list and the result are     *)
(* held in the variables of the optimizer above; pc tells the entry point  *)
(* and how far it has come.                                                *)
(***************************************************************************)
\* self.search_space; the bounds 3..100 and 10..300 of the source are scaled
\* to the price series of the model like those of the declared space
search_space ==
    [fast_ma |-> [min |-> 1, max |-> MaxFast, step |-> 1, type |-> "int"],
     slow_ma |-> [min |-> 2, max |-> MaxSlow, step |-> 1, type |-> "int"]]

\* the values trial.suggest_int(name, min, max, step=step) can return
SuggestInt(config) ==
    {config.min + k * config.step : k \in 0..((config.max - config.min) \div config.step)}

\* the parameter sets the loop over self.search_space can build
SearchPoints ==
    [fast_ma : SuggestInt(search_space.fast_ma), slow_ma : SuggestInt(search_space.slow_ma)]

\* the same points in the order of an enumeration, the last parameter fastest
SearchGrid ==
    Product([name \in DOMAIN search_space |-> RangeSeq(search_space[name])])

\* sampler=optuna.samplers.TPESampler(..., seed=42), in optimize and in
\* optimize_strategy
TpeSamplerSeed == "42"

\* what a second run of the same configuration can propose where this run
\* proposes params: the seeded sampler repeats itself
TpeTwinProposals(params) ==
    IF TpeSamplerSeed = "None" THEN SearchPoints ELSE {params}

\* the exception strategy.execute_trades(self.data) of strategy_management.py
\* raises, "none" if it returns: df['close'] without a close column, and
\* ValueError("No signals generated") for a frame without rows
MgmtSimException ==
    IF "close" \notin data_columns THEN "KeyError"
    ELSE IF closes = <<>> THEN "ValueError"
    ELSE "none"

\* `if params['fast_ma'] >= params['slow_ma']: return float('-inf')`
FastNotBelowSlow(params) == params.fast_ma >= params.slow_ma

\* the value objective returns for a parameter set when the simulation
\* returns: performance.get('total_return', float('-inf')), whatever the number
\* of trades
objective(params) ==
    IF FastNotBelowSlow(params) THEN NegInf
    ELSE IF SimLedger(params) = <<>> THEN Zero
    ELSE MgmtTotalReturn(PnlOf(SimLedger(params)))

\* the entry point and its default: optimize(self, n_trials: int = 200)
OptimizeDefaultTrials == 200

\* optimize_strategy(self, n_trials: int = 50)
OptimizeStrategyDefaultTrials == 50

\* the call of optimize, with or without the argument
OptimizeCall ==
    /\ pc = "call.optimize"
    /\ pc' = "tpe.optimize"
    /\ n_trials' = [n_trials EXCEPT
                       !.value = IF n_trials.given THEN @ ELSE OptimizeDefaultTrials]
    /\ UNCHANGED <<study, trial, sim_calls, data_columns, result, best_params, twin>>
    /\ UNCHANGED <<closes, data0, optimizer_type, self_parameter_space, gridVars,
                   diverseVars, stratVars>>
    /\ UNCHANGED regVars

\* the call of optimize_strategy, with or without the argument
OptimizeStrategyCall ==
    /\ pc = "call.optimize_strategy"
    /\ pc' = "tpe.optimize_strategy"
    /\ n_trials' = [n_trials EXCEPT
                       !.value = IF n_trials.given THEN @
                                 ELSE OptimizeStrategyDefaultTrials]
    /\ UNCHANGED <<study, trial, sim_calls, data_columns, result, best_params, twin>>
    /\ UNCHANGED <<closes, data0, optimizer_type, self_parameter_space, gridVars,
                   diverseVars, stratVars>>
    /\ UNCHANGED regVars

\* study.optimize(self.objective, n_trials=n_trials) starts a trial: the
\* sampler proposes any point of the search space (lines 44-61 of objective)
TpeSuggest ==
    /\ pc \in {"tpe.optimize", "tpe.optimize_strategy"}
    /\ trial.pc = "none"
    /\ TrialBudgetLeft(study, n_trials)
    /\ \E params \in SearchPoints :
          /\ trial' = [NoTrial EXCEPT !.pc = "suggested", !.params = params]
          /\ \E other \in TpeTwinProposals(params) : twin' = (twin /\ other = params)
    /\ UNCHANGED <<study, sim_calls>>
    /\ UNCHANGED <<pc, data_columns, result, best_params>>
    /\ UNCHANGED <<cfgVars, gridVars, diverseVars, stratVars>>
    /\ UNCHANGED regVars

\* lines 63-87 of objective and the study recording the value; an exception
\* of the simulation is caught nowhere and ends the run
Objective ==
    /\ pc \in {"tpe.optimize", "tpe.optimize_strategy"}
    /\ trial.pc = "suggested"
    /\ trial' = NoTrial
    /\ IF FastNotBelowSlow(trial.params)
       THEN /\ study' = Append(study, [params |-> trial.params, value |-> NegInf,
                                       sims |-> 0])
            /\ UNCHANGED <<pc, result, sim_calls>>
       ELSE /\ sim_calls' = Append(sim_calls, [params |-> trial.params,
                                               site |-> "objective"])
            /\ IF MgmtSimException # "none"
               THEN /\ pc' = "raised"
                    /\ result' = [status |-> "raised", exception |-> MgmtSimException,
                                  during |-> "trial"]
                    /\ UNCHANGED study
               ELSE /\ study' = Append(study, [params |-> trial.params,
                                               value |-> objective(trial.params),
                                               sims |-> 1])
                    /\ UNCHANGED <<pc, result>>
    /\ UNCHANGED <<data_columns, best_params, twin>>
    /\ UNCHANGED <<cfgVars, gridVars, diverseVars, stratVars>>
    /\ UNCHANGED regVars

\* lines 112-128 of optimize: study.best_params (a study without trials has
\* no best trial: ValueError), the final backtest and self.backtest_results
OptimizeBacktest ==
    /\ pc = "tpe.optimize"
    /\ trial.pc = "none"
    /\ ~TrialBudgetLeft(study, n_trials)
    /\ IF study = <<>>
       THEN /\ pc' = "raised"
            /\ result' = [status |-> "raised", exception |-> "ValueError",
                          during |-> "best_params"]
            /\ UNCHANGED <<best_params, sim_calls, metrics>>
       ELSE /\ best_params' = BestTrial(study).params
            /\ sim_calls' = Append(sim_calls, [params |-> BestTrial(study).params,
                                              site |-> "backtest"])
            /\ IF MgmtSimException # "none"
               THEN /\ pc' = "raised"
                    /\ result' = [status |-> "raised", exception |-> MgmtSimException,
                                  during |-> "backtest"]
                    /\ UNCHANGED metrics
               ELSE /\ pc' = "tpe.diverse"
                    /\ metrics' = mgmt_calculate_performance(
                                      SimLedger(BestTrial(study).params))
                    /\ UNCHANGED result
    /\ UNCHANGED <<study, trial, twin, data_columns>>
    /\ UNCHANGED <<cfgVars, gridVars, diverseVars>>
    /\ UNCHANGED <<signals, i, position, trades, opened, self_trades, parameters,
                    runs, prev_trades>>
    /\ UNCHANGED regVars

\* lines 168-176 of optimize_strategy: study.best_params and the final
\* backtest
OptimizeStrategyBacktest ==
    /\ pc = "tpe.optimize_strategy"
    /\ trial.pc = "none"
    /\ ~TrialBudgetLeft(study, n_trials)
    /\ IF study = <<>>
       THEN /\ pc' = "raised"
            /\ result' = [status |-> "raised", exception |-> "ValueError",
                          during |-> "best_params"]
            /\ UNCHANGED <<best_params, sim_calls>>
       ELSE /\ best_params' = BestTrial(study).params
            /\ sim_calls' = Append(sim_calls, [params |-> BestTrial(study).params,
                                              site |-> "backtest"])
            /\ IF MgmtSimException # "none"
               THEN /\ pc' = "raised"
                    /\ result' = [status |-> "raised", exception |-> MgmtSimException,
                                  during |-> "backtest"]
               ELSE /\ pc' = "tpe.unique"
                    /\ UNCHANGED result
    /\ UNCHANGED <<study, trial, twin, data_columns>>
    /\ UNCHANGED <<cfgVars, gridVars, diverseVars, stratVars>>
    /\ UNCHANGED regVars

\* win_rate = (winning_trades/total_trades*100) if total_trades > 0 else 0
\* and f"{win_rate:.1f}%": the tenths of a percent the text shows
DiverseWinRate(winning_trades, total_trades) ==
    [format |-> "%.1f%%",
     tenths |-> IF total_trades > 0
                THEN TenthsOf(FMulNat(FDivNat(FromInt(winning_trades), total_trades), 100))
                ELSE 0]

\* the entry _get_diverse_trials of optimization.py appends for row r of the
\* trials frame: the value is the one the study recorded
DiverseEntry(st, r) ==
    LET fast_ma == IntRound(st[r].params.fast_ma)
        slow_ma == IntRound(st[r].params.slow_ma)
        test_trades == SimLedger([fast_ma |-> fast_ma, slow_ma |-> slow_ma])
        total_trades == Len(test_trades)
        winning_trades == Len(SelectSeq(PnlOf(test_trades), IsWin))
    IN  [params |-> [fast_ma |-> fast_ma, slow_ma |-> slow_ma],
         value |-> st[r].value,
         trade_stats |-> [total_trades |-> total_trades,
                          winning_trades |-> winning_trades,
                          losing_trades |-> total_trades - winning_trades,
                          win_rate |-> DiverseWinRate(winning_trades, total_trades)]]

\* one iteration of the loop of _get_diverse_trials of optimization.py; the
\* simulation returns, as that of the final backtest did on the same frame
OptimizeDiverseRow ==
    /\ pc = "tpe.diverse"
    /\ \E r \in NextRows(study, visited) :
          LET param_key == <<IntRound(study[r].params.fast_ma),
                             IntRound(study[r].params.slow_ma)>>
          IN  /\ visited' = visited \cup {r}
              /\ IF param_key \notin used_params /\ Len(top_trials) < 5
                 THEN /\ top_trials' = Append(top_trials, DiverseEntry(study, r))
                      /\ used_params' = used_params \cup {param_key}
                      /\ sim_calls' = Append(sim_calls,
                                             [params |-> DiverseEntry(study, r).params,
                                              site |-> "_get_diverse_trials"])
                 ELSE UNCHANGED <<top_trials, used_params, sim_calls>>
    /\ UNCHANGED <<study, trial, twin, pc, result, best_params, data_columns>>
    /\ UNCHANGED <<cfgVars, gridVars, stratVars>>
    /\ UNCHANGED regVars

\* lines 130-135: the dictionary optimize returns
OptimizeReturn ==
    /\ pc = "tpe.diverse"
    /\ visited = 1..Len(study)
    /\ pc' = "returned"
    /\ result' = [best_params |-> BestTrial(study).params,
                  best_value |-> BestTrial(study).value,
                  top_trials |-> top_trials,
                  optimization_history |-> study]
    /\ UNCHANGED <<study, trial, twin, sim_calls, data_columns, best_params>>
    /\ UNCHANGED <<cfgVars, gridVars, diverseVars, stratVars>>
    /\ UNCHANGED regVars

\* one iteration of the loop of optimize_strategy over the sorted trials
\* frame (lines 185-200): no simulation; the duration recorded for a trial
\* is stood for by the trial's number
UniqueRow ==
    /\ pc = "tpe.unique"
    /\ \E r \in NextRows(study, visited) :
          LET params == <<IntRound(study[r].params.fast_ma),
                          IntRound(study[r].params.slow_ma)>>
          IN  /\ visited' = visited \cup {r}
              /\ IF params \notin used_params /\ Len(top_trials) < 5
                 THEN /\ used_params' = used_params \cup {params}
                      /\ top_trials' =
                            Append(top_trials,
                                   [params |-> [fast_ma |-> params[1],
                                                slow_ma |-> params[2]],
                                    value |-> study[r].value,
                                    duration |-> r])
                 ELSE UNCHANGED <<top_trials, used_params>>
    /\ UNCHANGED <<study, trial, twin, pc, result, best_params, data_columns,
                    sim_calls>>
    /\ UNCHANGED <<cfgVars, gridVars, stratVars>>
    /\ UNCHANGED regVars

\* lines 203-215: self.backtest_results and the dictionary optimize_strategy
\* returns
OptimizeStrategyReturn ==
    /\ pc = "tpe.unique"
    /\ visited = 1..Len(study)
    /\ pc' = "returned"
    /\ metrics' = mgmt_calculate_performance(SimLedger(best_params))
    /\ result' = [best_params |-> BestTrial(study).params,
                  best_value |-> BestTrial(study).value,
                  top_trials |-> top_trials,
                  optimization_history |-> study]
    /\ UNCHANGED <<study, trial, twin, sim_calls, data_columns, best_params>>
    /\ UNCHANGED <<cfgVars, gridVars, diverseVars>>
    /\ UNCHANGED <<signals, i, position, trades, opened, self_trades, parameters,
                    runs, prev_trades>>
    /\ UNCHANGED regVars

\* the keys ReportGenerator._create_performance_summary reads from
\* backtest_results['performance_metrics']
ReportReads ==
    {"total_return", "total_trades", "win_rate", "profit_factor", "sharpe_ratio",
     "max_drawdown", "sortino_ratio", "calmar_ratio"}

NoMetrics == [none |-> Zero]

Signals == {-1, 0, 1}
Prices == 1..MaxPrice

InitSim ==
    /\ \E n \in 1..MaxBars :
          /\ closes \in [1..n -> Prices]
          /\ signals \in [1..n -> Signals]
    /\ pc = "idle"
    /\ i = 0
    /\ position = NoPosition
    /\ trades = <<>>
    /\ opened = 0
    /\ self_trades = <<>>
    /\ metrics = NoMetrics
    /\ parameters = DefaultParams
    /\ runs = 0
    /\ prev_trades = <<>>

\* no optimizer run has started
InitRun ==
    /\ study = <<>>
    /\ trial = NoTrial
    /\ sim_calls = <<>>
    /\ trials = <<>>
    /\ best_value = NegInf
    /\ best_params = NoParams
    /\ result = NoResult
    /\ visited = {}
    /\ used_params = {}
    /\ top_trials = <<>>
    /\ twin = TRUE

\* the class attribute _strategies = {} and no call made
NoCall == [op |-> "none"]

InitRegistryIdle ==
    /\ _strategies = <<>>
    /\ reg_log = <<>>
    /\ reg_result = NoCall

InitSearchIdle ==
    /\ InitRun
    /\ InitRegistryIdle
    /\ optimizer_type = "none"
    /\ self_parameter_space = param_config
    /\ n_trials = NoneTrials
    /\ data_columns = {"close", "signal"}
    /\ data0 = Frame({"close", "signal"}, closes)

Init == InitSim /\ InitSearchIdle

Next ==
    \/ ExecuteTradesStart
    \/ ProcessBar
    \/ ExecuteTradesReturn
    \/ CalculatePerformance
    \/ MgmtCalculatePerformance

Spec == Init /\ [][Next]_vars

\* the strategy instance of the simulator specification is not running
InitStrategyOf(params) ==
    /\ signals = <<>>
    /\ i = 0
    /\ position = NoPosition
    /\ trades = <<>>
    /\ opened = 0
    /\ self_trades = <<>>
    /\ metrics = NoMetrics
    /\ parameters = params
    /\ runs = 0
    /\ prev_trades = <<>>

InitStrategyIdle == InitStrategyOf(DefaultParams)

\* StrategyOptimizer(strategy_class, data, optimizer_type=...).optimize(n_trials)
\* on one of the frames, in either mode.  The class that declares a float
\* parameter is handed to the grid search, which builds its grid by type;
\* the Bayesian searches run on the class of int parameters.
InitSearch ==
    /\ \E df \in SearchFrames :
          /\ closes = df.close
          /\ data_columns = df.columns
          /\ data0 = df
    /\ optimizer_type \in {"grid", "bayesian"}
    /\ self_parameter_space \in
          (IF optimizer_type = "grid" THEN StrategySpaces ELSE {param_config})
    /\ n_trials \in {Given(k) : k \in 1..MaxTrials}
    /\ pc = IF optimizer_type = "grid" THEN "grid" ELSE "search"
    /\ InitStrategyIdle
    /\ InitRun
    /\ InitRegistryIdle

\* the trials of a search: the grid search, and study.optimize of the
\* Bayesian search
NextSearch ==
    \/ GridEvaluate
    \/ GridReturn
    \/ SuggestParameters
    \/ ObjectiveReject
    \/ ObjectiveSimulate
    \/ ObjectiveReturn

SpecSearch == InitSearch /\ [][NextSearch]_vars

\* optimize from the call to the returned dictionary, in either mode
NextOptimize ==
    \/ GridEvaluate
    \/ GridReturn
    \/ SuggestParameters
    \/ ObjectiveReject
    \/ ObjectiveSimulate
    \/ ObjectiveReturn
    \/ BayesianBacktest
    \/ DiverseRow
    \/ BayesianReturn

SpecOptimize == InitSearch /\ [][NextOptimize]_vars

(***************************************************************************)
(* Bayesian searches of up to MaxStudy + 1 trials in which the sampler     *)
(* proposes the points of the parameter space in the order of their        *)
(* enumeration and, at most once, the first point again.  They reach       *)
(* _get_diverse_trials with more than TopK distinct parameter sets.        *)
(***************************************************************************)
MaxStudy == 6

\* what the sampler proposes next in these searches: the next point of the
\* enumeration, or as the last trial of the budget the first point again
InOrderProposals(st) ==
    (IF Len(st) < Len(Product(param_grid(param_config)))
     THEN {Product(param_grid(param_config))[Len(st) + 1]} ELSE {})
    \cup (IF Len(st) >= 1 /\ Len(st) = n_trials.value - 1
          THEN {Product(param_grid(param_config))[1]} ELSE {})

\* params = self._suggest_parameters(trial) with that sampler
SuggestInOrder ==
    /\ pc = "search"
    /\ trial.pc = "none"
    /\ TrialBudgetLeft(study, n_trials)
    /\ \E params \in InOrderProposals(study) :
          /\ trial' = [NoTrial EXCEPT !.pc = "suggested", !.params = params]
          /\ \E other \in TwinProposals(params) : twin' = (twin /\ other = params)
    /\ UNCHANGED <<study, sim_calls>>
    /\ UNCHANGED <<pc, data_columns, result, best_params>>
    /\ UNCHANGED <<cfgVars, gridVars, diverseVars, stratVars>>
    /\ UNCHANGED regVars

\* the same sampler in the searches of optimization.py
TpeInOrderProposals(st) ==
    (IF Len(st) < Len(SearchGrid) THEN {SearchGrid[Len(st) + 1]} ELSE {})
    \cup (IF Len(st) >= 1 /\ Len(st) = n_trials.value - 1
          THEN {SearchGrid[1]} ELSE {})

\* the start of a trial of optimization.py with that sampler
TpeSuggestInOrder ==
    /\ pc \in {"tpe.optimize", "tpe.optimize_strategy"}
    /\ trial.pc = "none"
    /\ TrialBudgetLeft(study, n_trials)
    /\ \E params \in TpeInOrderProposals(study) :
          /\ trial' = [NoTrial EXCEPT !.pc = "suggested", !.params = params]
          /\ \E other \in TpeTwinProposals(params) : twin' = (twin /\ other = params)
    /\ UNCHANGED <<study, sim_calls>>
    /\ UNCHANGED <<pc, data_columns, result, best_params>>
    /\ UNCHANGED <<cfgVars, gridVars, diverseVars, stratVars>>
    /\ UNCHANGED regVars

\* a Bayesian search of strategy_optimizer.py, or optimize or
\* optimize_strategy of optimization.py
InitDiverse ==
    /\ closes \in {SeriesA, SeriesT}
    /\ data_columns = {"close"}
    /\ data0 = Frame({"close"}, closes)
    /\ \/ optimizer_type = "bayesian" /\ pc = "search"
       \/ optimizer_type = "none" /\ pc \in {"tpe.optimize", "tpe.optimize_strategy"}
    /\ n_trials \in {Given(k) : k \in 1..(MaxStudy + 1)}
    /\ InitStrategyIdle
    /\ InitRun
    /\ self_parameter_space = param_config
    /\ InitRegistryIdle

NextDiverse ==
    \/ SuggestInOrder
    \/ ObjectiveReject
    \/ ObjectiveSimulate
    \/ ObjectiveReturn
    \/ BayesianBacktest
    \/ DiverseRow
    \/ BayesianReturn
    \/ TpeSuggestInOrder
    \/ Objective
    \/ OptimizeBacktest
    \/ OptimizeDiverseRow
    \/ OptimizeReturn
    \/ OptimizeStrategyBacktest
    \/ UniqueRow
    \/ OptimizeStrategyReturn

SpecDiverse == InitDiverse /\ [][NextDiverse]_vars

(***************************************************************************)
(* optimize from its call, with or without the argument n_trials, up to    *)
(* the end of the trials.  So that the default budget of 100 trials can be *)
(* run through, the sampler of these searches proposes any first point and *)
(* from then on the successor of the last proposal in the enumeration of   *)
(* the space.                                                              *)
(***************************************************************************)
\* optimize: dispatch on optimizer_type and the default of n_trials
Optimize ==
    /\ pc = "optimize"
    /\ IF optimizer_type = "grid"
       THEN /\ pc' = "grid"
            /\ UNCHANGED n_trials
       ELSE /\ pc' = "search"
            /\ n_trials' = [n_trials EXCEPT !.value = EffectiveTrials(n_trials)]
    /\ UNCHANGED <<study, trial, sim_calls, data_columns, result, best_params, twin>>
    /\ UNCHANGED <<closes, data0, optimizer_type, self_parameter_space, gridVars,
                   diverseVars, stratVars>>
    /\ UNCHANGED regVars

IndexIn(seq, x) == CHOOSE k \in 1..Len(seq) : seq[k] = x

CyclicProposals(st) ==
    IF st = <<>> THEN parameter_space
    ELSE LET space == Product(param_grid(param_config))
         IN  {space[(IndexIn(space, st[Len(st)].params) % Len(space)) + 1]}

\* params = self._suggest_parameters(trial) with that sampler
SuggestCyclic ==
    /\ pc = "search"
    /\ trial.pc = "none"
    /\ TrialBudgetLeft(study, n_trials)
    /\ \E params \in CyclicProposals(study) :
          trial' = [NoTrial EXCEPT !.pc = "suggested", !.params = params]
    /\ UNCHANGED <<study, sim_calls>>
    /\ UNCHANGED <<pc, data_columns, result, best_params, twin>>
    /\ UNCHANGED <<cfgVars, gridVars, diverseVars, stratVars>>
    /\ UNCHANGED regVars

InitBudget ==
    /\ \E df \in SearchFrames :
          /\ closes = df.close
          /\ data_columns = df.columns
          /\ data0 = df
    /\ optimizer_type \in {"grid", "bayesian"}
    /\ n_trials \in {NoneTrials} \cup {Given(k) : k \in 1..MaxTrials}
    /\ pc = "optimize"
    /\ InitStrategyIdle
    /\ InitRun
    /\ self_parameter_space = param_config
    /\ InitRegistryIdle

NextBudget ==
    \/ Optimize
    \/ GridEvaluate
    \/ GridReturn
    \/ SuggestCyclic
    \/ ObjectiveReject
    \/ ObjectiveSimulate
    \/ ObjectiveReturn
    \/ BayesianBacktest

\* The interpreter runs the call on: a step that stays possible is taken.
\* This is weak fairness of every action; for the five actions that run a
\* simulation or compute a value, ENABLED is written out as the action's
\* guard (the rest of each of them only assigns, and each changes sim_calls
\* or the trial).
FairBudget ==
    /\ WF_vars(Optimize)
    /\ WF_vars(SuggestCyclic)
    /\ WF_vars(ObjectiveReject)
    /\ ([]<>~BayesianBacktestEnabled \/ []<><<BayesianBacktest>>_vars)
    /\ ([]<>~GridReturnEnabled \/ []<><<GridReturn>>_vars)
    /\ ([]<>~GridEvaluateEnabled \/ []<><<GridEvaluate>>_vars)
    /\ ([]<>~ObjectiveSimulateEnabled \/ []<><<ObjectiveSimulate>>_vars)
    /\ ([]<>~ObjectiveReturnEnabled \/ []<><<ObjectiveReturn>>_vars)

SpecBudget == InitBudget /\ [][NextBudget]_vars /\ FairBudget

(***************************************************************************)
(* optimize and optimize_strategy of optimization.py on the frames of the  *)
(* searches, the sampler proposing any point, with a budget of 0 to        *)
(* MaxTrials trials.                                                       *)
(***************************************************************************)
InitTpe ==
    /\ \E df \in SearchFrames :
          /\ closes = df.close
          /\ data_columns = df.columns
          /\ data0 = df
    /\ optimizer_type = "none"
    /\ n_trials \in {Given(k) : k \in 0..MaxTrials}
    /\ pc \in {"tpe.optimize", "tpe.optimize_strategy"}
    /\ InitStrategyIdle
    /\ InitRun
    /\ self_parameter_space = param_config
    /\ InitRegistryIdle

NextTpe ==
    \/ TpeSuggest
    \/ Objective
    \/ OptimizeBacktest
    \/ OptimizeDiverseRow
    \/ OptimizeReturn
    \/ OptimizeStrategyBacktest
    \/ UniqueRow
    \/ OptimizeStrategyReturn

SpecTpe == InitTpe /\ [][NextTpe]_vars

\* a second run of optimize or optimize_strategy with the same seed has
\* proposed what this run proposed
SeededRunsAgree == optimizer_type = "none" => twin

\* every entry of the top-trials list of optimization.py carries the value
\* the study recorded for the row it was made from, in descending order
RecordedValuesDescending ==
    optimizer_type = "none" =>
        /\ \A k \in 1..(Len(top_trials) - 1) :
              ~RLt(top_trials[k].value, top_trials[k + 1].value)
        /\ \A k \in 1..Len(top_trials) :
              [params |-> top_trials[k].params, value |-> top_trials[k].value]
                  \in {[params |-> study[r].params, value |-> study[r].value] :
                          r \in visited}

\* a trial with fewer than MinTrades trades is scored by its total return
ScoredBelowMinTrades ==
    \E r \in 1..Len(study) :
        /\ optimizer_type = "none"
        /\ study[r].value # NegInf
        /\ Len(SimLedger(study[r].params)) < MinTrades

(***************************************************************************)
(* optimize and optimize_strategy from the call, with or without the       *)
(* argument n_trials, up to the end of the trials, the sampler proposing   *)
(* any first point and then the successors in the enumeration.             *)
(***************************************************************************)
TpeCyclicProposals(st) ==
    IF st = <<>> THEN SearchPoints
    ELSE {SearchGrid[(IndexIn(SearchGrid, st[Len(st)].params) % Len(SearchGrid)) + 1]}

\* the start of a trial of optimization.py with that sampler
TpeSuggestCyclic ==
    /\ pc \in {"tpe.optimize", "tpe.optimize_strategy"}
    /\ trial.pc = "none"
    /\ TrialBudgetLeft(study, n_trials)
    /\ \E params \in TpeCyclicProposals(study) :
          /\ trial' = [NoTrial EXCEPT !.pc = "suggested", !.params = params]
          /\ \E other \in TpeTwinProposals(params) : twin' = (twin /\ other = params)
    /\ UNCHANGED <<study, sim_calls>>
    /\ UNCHANGED <<pc, data_columns, result, best_params>>
    /\ UNCHANGED <<cfgVars, gridVars, diverseVars, stratVars>>
    /\ UNCHANGED regVars

InitTpeBudget ==
    /\ \E df \in SearchFrames :
          /\ closes = df.close
          /\ data_columns = df.columns
          /\ data0 = df
    /\ optimizer_type = "none"
    /\ n_trials \in {NoneTrials} \cup {Given(k) : k \in 0..MaxTrials}
    /\ pc \in {"call.optimize", "call.optimize_strategy"}
    /\ InitStrategyIdle
    /\ InitRun
    /\ self_parameter_space = param_config
    /\ InitRegistryIdle

NextTpeBudget ==
    \/ OptimizeCall
    \/ OptimizeStrategyCall
    \/ TpeSuggestCyclic
    \/ Objective

SpecTpeBudget == InitTpeBudget /\ [][NextTpeBudget]_vars

\* the study never holds more trials than the budget, which is 200 for
\* optimize and 50 for optimize_strategy when the argument is omitted
TpeBudgetKept ==
    /\ pc \in {"tpe.optimize", "tpe.optimize_strategy"} => Len(study) <= n_trials.value
    /\ (pc = "tpe.optimize" /\ ~n_trials.given) => n_trials.value = OptimizeDefaultTrials
    /\ (pc = "tpe.optimize_strategy" /\ ~n_trials.given) =>
           n_trials.value = OptimizeStrategyDefaultTrials

TpeBudgetSpent ==
    /\ pc = "tpe.optimize"
    /\ ~n_trials.given
    /\ Len(study) = OptimizeDefaultTrials

(***************************************************************************)
(* The moving-average-cross strategy with fast_ma = 3, slow_ma = 10 on     *)
(* strictly increasing close series of ExampleBars bars.                   *)
(***************************************************************************)
ExampleBars == 100

ExampleParams == [fast_ma |-> 3, slow_ma |-> 10]

\* strictly increasing series: linear and convex
IncreasingSeries ==
    {[k \in 1..ExampleBars |-> start + step * (k - 1)] :
        start \in Prices, step \in 1..MaxPrice}
    \cup
    {[k \in 1..ExampleBars |-> start + step * (k - 1) * (k - 1)] :
        start \in Prices, step \in 1..MaxPrice}

InitExample ==
    /\ closes \in IncreasingSeries
    /\ pc = "example"
    /\ InitStrategyOf(ExampleParams)
    /\ InitSearchIdle

\* signals = self.generate_signals(df), the first statement of execute_trades
GenerateSignals ==
    /\ pc = "example"
    /\ signals' = generate_signals(closes, parameters)
    /\ pc' = "idle"
    /\ UNCHANGED <<closes, i, position, trades, opened, self_trades, metrics,
                    runs, prev_trades>>
    /\ UNCHANGED searchVars
    /\ UNCHANGED <<parameters, regVars>>

NextExample ==
    \/ GenerateSignals
    \/ ExecuteTradesStart
    \/ ProcessBar
    \/ ExecuteTradesReturn
    \/ CalculatePerformance

SpecExample == InitExample /\ [][NextExample]_vars

(***************************************************************************)
(* Several calls on one strategy instance: execute_trades up to MaxRuns    *)
(* times on the same frame, calculate_performance before the first call   *)
(* and after any call.  The price series zigzags between the lowest and    *)
(* the highest price; the signal series is any.                            *)
(***************************************************************************)
MaxRuns == 2

ZigZag(n) == [k \in 1..n |-> IF k % 2 = 1 THEN 1 ELSE MaxPrice]

\* execute_trades is called again on the instance
ExecuteTradesAgain ==
    /\ pc \in {"done", "perf"}
    /\ runs < MaxRuns
    /\ BeginRun
    /\ UNCHANGED <<closes, signals, self_trades, metrics, prev_trades>>
    /\ UNCHANGED searchVars
    /\ UNCHANGED <<parameters, regVars>>

\* calculate_performance on an instance execute_trades was not yet called on
CalculatePerformanceFirst ==
    /\ pc = "idle"
    /\ runs = 0
    /\ metrics' = calculate_performance(self_trades)
    /\ pc' = "perf"
    /\ UNCHANGED <<closes, signals, i, position, trades, opened, self_trades,
                    runs, prev_trades>>
    /\ UNCHANGED searchVars
    /\ UNCHANGED <<parameters, regVars>>

InitRerun ==
    /\ \E n \in 1..MaxBars :
          /\ closes = ZigZag(n)
          /\ signals \in [1..n -> Signals]
    /\ pc = "idle"
    /\ i = 0
    /\ position = NoPosition
    /\ trades = <<>>
    /\ opened = 0
    /\ self_trades = <<>>
    /\ metrics = NoMetrics
    /\ parameters = DefaultParams
    /\ runs = 0
    /\ prev_trades = <<>>
    /\ InitSearchIdle

NextRerun ==
    \/ ExecuteTradesStart
    \/ ExecuteTradesAgain
    \/ ProcessBar
    \/ ExecuteTradesReturn
    \/ CalculatePerformance
    \/ CalculatePerformanceFirst

SpecRerun == InitRerun /\ [][NextRerun]_vars


(***************************************************************************)
(* MACrossStrategy(parameters).execute_trades on any short price series,   *)
(* series shorter than the windows included: the parameters are a point of *)
(* the searched space or the defaults of calculate_indicators.             *)
(***************************************************************************)
InitSignals ==
    /\ \E n \in 1..MaxBars : closes \in [1..n -> Prices]
    /\ \E params \in parameter_space \cup {DefaultParams} : InitStrategyOf(params)
    /\ pc = "example"
    /\ InitSearchIdle

SpecSignals == InitSignals /\ [][NextExample]_vars

(***************************************************************************)
(* StrategyRegistry (src/src/strategy_registry.py).  _strategies is a dict: *)
(* a sequence of entries with pairwise different names, in insertion       *)
(* order.                                                                  *)
(***************************************************************************)
MaxRegs == 3      \* register calls made

\* the classes handed to register: the two of src/strategies and one more
\* whose strategy_info carries the name of MACrossStrategy
StrategyClasses == {"MACrossStrategy", "RSIStrategy", "TunedMACrossStrategy"}

\* strategy_class({}).strategy_info['name']
StrategyName(class) ==
    IF class = "RSIStrategy" THEN "RSI Strategy" ELSE "MA Cross Strategy"

\* the names get_strategy is called with
QueryNames == {"MA Cross Strategy", "RSI Strategy", "Bollinger Strategy"}

\* list(cls._strategies.keys())
Keys(dict) == [k \in 1..Len(dict) |-> dict[k].name]

\* name in cls._strategies
HasKey(dict, name) == \E k \in 1..Len(dict) : dict[k].name = name

\* cls._strategies[name]
Lookup(dict, name) ==
    dict[CHOOSE k \in 1..Len(dict) : dict[k].name = name].class

SetItem_KeepFirst(dict, name, class) ==
    IF HasKey(dict, name) THEN dict
    ELSE Append(dict, [name |-> name, class |-> class])

\* cls._strategies[strategy_name] = strategy_class
SetItem(dict, name, class) ==
    IF HasKey(dict, name)
    THEN [k \in 1..Len(dict) |->
            IF dict[k].name = name THEN [name |-> name, class |-> class] ELSE dict[k]]
    ELSE Append(dict, [name |-> name, class |-> class])

\* StrategyRegistry.register(strategy_class)
Register ==
    /\ pc = "registry"
    /\ Len(reg_log) < MaxRegs
    /\ \E class \in StrategyClasses :
          /\ _strategies' = SetItem(_strategies, StrategyName(class), class)
          /\ reg_log' = Append(reg_log, class)
          /\ reg_result' = [op |-> "register", value |-> class]
    /\ UNCHANGED <<simVars, searchVars, parameters, runs, prev_trades>>

\* StrategyRegistry.get_strategy(name)
GetStrategy ==
    /\ pc = "registry"
    /\ \E name \in QueryNames :
          reg_result' =
              IF ~HasKey(_strategies, name)
              THEN [op |-> "get_strategy", name |-> name, raised |-> TRUE,
                    value |-> "ValueError"]
              ELSE [op |-> "get_strategy", name |-> name, raised |-> FALSE,
                    value |-> Lookup(_strategies, name)]
    /\ UNCHANGED <<_strategies, reg_log>>
    /\ UNCHANGED <<simVars, searchVars, parameters, runs, prev_trades>>

\* StrategyRegistry.list_strategies()
ListStrategies ==
    /\ pc = "registry"
    /\ reg_result' = [op |-> "list_strategies", value |-> Keys(_strategies)]
    /\ UNCHANGED <<_strategies, reg_log>>
    /\ UNCHANGED <<simVars, searchVars, parameters, runs, prev_trades>>

InitRegistry ==
    /\ closes = SeriesB
    /\ pc = "registry"
    /\ InitStrategyIdle
    /\ InitSearchIdle

NextRegistry ==
    \/ Register
    \/ GetStrategy
    \/ ListStrategies

SpecRegistry == InitRegistry /\ [][NextRegistry]_vars

(***************************************************************************)
(* Properties of the trade simulator and of the performance metrics.       *)
(***************************************************************************)
Opposite(side) == IF side = "long" THEN -1 ELSE 1
Entering(side) == IF side = "long" THEN 1 ELSE -1

AllSignalsZero == \A k \in 1..Len(signals) : signals[k] = 0

AtPerf == pc \in {"perf", "perf_mgmt"}
Returned == pc \in {"done", "perf", "perf_mgmt"}

\* C1: while execute_trades runs its bar loop at most one position is open:
\* the positions opened and not yet closed number 1 when `position` is set
\* and 0 otherwise, so none is opened on top of an open one.
C1_AtMostOnePosition ==
    pc = "loop" =>
        /\ opened - Len(trades) \in {0, 1}
        /\ HasPosition(position) <=> (opened - Len(trades) = 1)

C1_Witness ==
    /\ pc = "loop"
    /\ HasPosition(position)
    /\ Len(trades) >= 1
    /\ SignalAt(i - 1) = Entering(position.type)
    /\ position.entry_time < i - 1

\* C2: when execute_trades has returned, a position left open by the loop has
\* been closed at the last bar's close price and timestamp, and the ledger
\* holds exactly one trade per position that was opened.
C2_ForceClosedAtLastBar ==
    pc = "done" =>
        /\ self_trades = trades
        /\ Len(self_trades) = opened
        /\ HasPosition(position) =>
              /\ self_trades # <<>>
              /\ LET last == self_trades[Len(self_trades)]
                 IN  /\ last.entry_time = position.entry_time
                     /\ last.entry_price = position.entry_price
                     /\ last.type = position.type
                     /\ last.exit_time = TimeOf(Len(closes) - 1)
                     /\ last.exit_price = closes[Len(closes)]

C2_Witness ==
    /\ pc = "done"
    /\ HasPosition(position)
    /\ position.entry_time < LastIndex
    /\ Len(self_trades) >= 2
    /\ self_trades[Len(self_trades)].exit_price # self_trades[Len(self_trades)].entry_price

\* a field of a metrics record is 0, as a rational or as a double
IsZeroField(value) ==
    IF "kind" \in DOMAIN value THEN FIsZero(value) ELSE value = Zero

\* C3: a signal series of zeros only gives an empty ledger, and
\* calculate_performance then returns a record whose every field is 0.
C3_NoSignalNoTrades ==
    AllSignalsZero =>
        /\ Returned => self_trades = <<>>
        /\ AtPerf => \A f \in DOMAIN metrics : IsZeroField(metrics[f])

C3_Witness ==
    /\ pc = "perf"
    /\ AllSignalsZero
    /\ Len(signals) >= 3
    /\ self_trades = <<>>
    /\ metrics.total_trades = Zero

\* C4: every trade of the ledger was entered on a bar whose signal has the
\* trade's side, at that bar's close; it was closed on the first later bar
\* with the opposite signal, or by the force-close at the last bar; and its
\* pnl is (exit - entry)/entry for a long, (entry - exit)/entry for a short.
\* An open position has seen no opposite signal since its entry.
TradeMatchesBars(t, forced) ==
    /\ t.entry_time \in 1..LastIndex
    /\ t.exit_time \in t.entry_time..LastIndex
    /\ SignalAt(t.entry_time) = Entering(t.type)
    /\ t.entry_price = CloseAt(t.entry_time)
    /\ t.exit_price = CloseAt(t.exit_time)
    /\ \A j \in (t.entry_time + 1)..(t.exit_time - 1) : SignalAt(j) # Opposite(t.type)
    /\ \/ SignalAt(t.exit_time) = Opposite(t.type) /\ t.exit_time > t.entry_time
       \/ forced /\ t.exit_time = LastIndex
    /\ t.pnl.d > 0
    /\ t.pnl.n * t.entry_price =
          t.pnl.d * (IF t.type = "long" THEN t.exit_price - t.entry_price
                                        ELSE t.entry_price - t.exit_price)

C4_CloseOnOppositeWithPnl ==
    /\ \A k \in 1..Len(trades) :
          TradeMatchesBars(trades[k], pc # "loop" /\ k = Len(trades))
    /\ (pc = "loop" /\ HasPosition(position)) =>
          \A j \in (position.entry_time + 1)..(i - 1) :
              SignalAt(j) # Opposite(position.type)

C4_Witness ==
    /\ pc = "done"
    /\ Len(self_trades) >= 3
    /\ \E k \in 1..Len(self_trades) :
          self_trades[k].type = "long" /\ RLt(self_trades[k].pnl, Zero)
    /\ \E k \in 1..Len(self_trades) :
          self_trades[k].type = "short" /\ RLt(self_trades[k].pnl, Zero)

\* C5: every trade of the ledger has entry_time < exit_time, also a position
\* opened on the final bar and force-closed there.
C5_StrictlyPositiveDuration ==
    Returned => \A k \in 1..Len(self_trades) :
                    self_trades[k].entry_time < self_trades[k].exit_time

\* C6: the ledger is time-ordered and non-overlapping: a trade is entered no
\* earlier than the previous one was exited, and exit times never decrease.
C6_LedgerOrdered ==
    \A k \in 1..(Len(trades) - 1) :
        /\ trades[k].exit_time <= trades[k + 1].entry_time
        /\ trades[k].exit_time <= trades[k + 1].exit_time

C6_Witness ==
    /\ pc = "done"
    /\ Len(self_trades) >= 3
    /\ self_trades[2].entry_time < self_trades[2].exit_time

\* C7: for a non-empty ledger calculate_performance reports total_return as
\* the plain sum of the pnl and compound_return as the product of (1 + pnl)
\* minus 1.
C7_AdditiveAndCompound ==
    (AtPerf /\ self_trades # <<>>) =>
        LET pnl == PnlOf(self_trades)
        IN  /\ metrics.total_return = RSum(pnl)
            /\ "compound_return" \in DOMAIN metrics
            /\ metrics.compound_return =
                  RSub(RProd([k \in 1..Len(pnl) |-> RAdd(One, pnl[k])]), One)

\* C8: profit_factor is 0 exactly when the losing pnl sum to 0, calmar_ratio
\* is 0 exactly when max_drawdown is 0, and neither is the result of a
\* division by zero.
C8_ZeroExactlyOnZeroDenominator ==
    /\ AtPerf =>
          LET loss_sum == RSum(SelectSeq(PnlOf(self_trades), IsLoss))
          IN  /\ IsFinite(metrics.profit_factor)
              /\ (metrics.profit_factor = Zero) <=> (loss_sum = Zero)
    /\ pc = "perf_mgmt" =>
          /\ FIsFinite(metrics.calmar_ratio)
          /\ FIsZero(metrics.calmar_ratio) <=> FIsZero(metrics.max_drawdown)

\* C9: every record returned by calculate_performance defines every
\* PerformanceMetrics field, and so every field the report reads.
PerformanceMetricsFields ==
    {"total_return", "compound_return", "total_trades", "win_rate", "profit_factor",
     "max_drawdown", "sharpe_ratio", "sortino_ratio", "calmar_ratio", "avg_win",
     "avg_loss", "max_consecutive_wins", "max_consecutive_losses", "risk_reward_ratio"}

C9_AllFieldsDefined ==
    AtPerf => /\ PerformanceMetricsFields \subseteq DOMAIN metrics
              /\ ReportReads \subseteq DOMAIN metrics

(***************************************************************************)
(* Properties of the Bayesian objective.                                   *)
(***************************************************************************)
\* C10: in the Bayesian objective validation precedes simulation: a trial is
\* only simulated after its parameters passed validate_parameters, and a trial
\* whose parameters fail it is recorded with value -inf without any call of
\* execute_trades.
C10_ValidateBeforeSimulate ==
    /\ trial.pc = "simulated" => validate_parameters(trial.params)
    /\ \A k \in 1..Len(study) :
          ~validate_parameters(study[k].params) =>
              study[k].value = NegInf /\ study[k].sims = 0
    /\ \A k \in 1..Len(sim_calls) :
          sim_calls[k].site = "_objective" => validate_parameters(sim_calls[k].params)

C10_Witness ==
    /\ Len(study) >= 2
    /\ \E k \in 1..Len(study) :
          /\ ~validate_parameters(study[k].params)
          /\ study[k].value = NegInf
          /\ study[k].sims = 0
    /\ \E k \in 1..Len(study) :
          /\ validate_parameters(study[k].params)
          /\ study[k].sims = 1
          /\ IsFinite(study[k].value)
    /\ Len(sim_calls) = 1

(***************************************************************************)
(* Properties of the two search modes.                                     *)
(***************************************************************************)
\* what both objectives are to return for a valid parameter set: -inf when
\* the simulated ledger has fewer than ten trades, else the sum of its pnl
ExpectedObjective(params) ==
    IF Len(SimLedger(params)) < 10 THEN NegInf ELSE RSum(PnlOf(SimLedger(params)))

\* C11: for every valid parameter set the grid objective and the Bayesian
\* objective return the same value: -inf when the ledger has fewer than ten
\* trades, otherwise the additive total return of the ledger (a ledger of
\* exactly ten trades is accepted).  Stated of the value either objective
\* has just returned, which every recorded value once was.
C11_ObjectivesAgree ==
    /\ (pc = "grid" /\ trials # <<>>) =>
          LET last == trials[Len(trials)]
          IN  /\ validate_parameters(last.params)
              /\ last.value = _objective(last.params)
              /\ last.value = ExpectedObjective(last.params)
    /\ (pc = "search" /\ trial.pc = "none" /\ study # <<>>) =>
          LET last == study[Len(study)]
          IN  validate_parameters(last.params) =>
                  /\ last.value = _objective_func(last.params)
                  /\ last.value = ExpectedObjective(last.params)

C11_Witness ==
    /\ pc = "returned"
    /\ optimizer_type = "grid"
    /\ \E k \in 1..Len(trials) :
          /\ Len(SimLedger(trials[k].params)) = 10
          /\ IsFinite(trials[k].value)
    /\ \E k \in 1..Len(trials) :
          /\ Len(SimLedger(trials[k].params)) = 9
          /\ trials[k].value = NegInf
    /\ \E k \in 1..Len(trials) : Len(SimLedger(trials[k].params)) > 10

\* the values min, min + step, ... up to max of a declared parameter
SteppedRange(config) ==
    {v \in config.min..config.max : (v - config.min) % config.step = 0}

\* the Cartesian product of the stepped ranges of every declared parameter
FullSpace ==
    [fast_ma : SteppedRange(self_parameter_space.fast_ma),
     slow_ma : SteppedRange(self_parameter_space.slow_ma)]

ValidCombinations == {p \in FullSpace : validate_parameters(p)}

GridLoopDone ==
    /\ optimizer_type = "grid"
    /\ \/ pc = "returned"
       \/ pc = "raised" /\ result.during = "backtest"

\* the declared parameters of type int
IntParams ==
    {name \in DOMAIN self_parameter_space : self_parameter_space[name].type = "int"}

\* the Cartesian product of the stepped ranges of the declared parameters of
\* type int: the dictionaries that give each of them a value of its range
IntSpace ==
    {p \in [IntParams -> 1..MaxSlow] :
        \A name \in IntParams : p[name] \in SteppedRange(self_parameter_space[name])}

ValidIntCombinations == {p \in IntSpace : validate_parameters(p)}

Reordered(perm) == [k \in 1..Len(trials) |-> trials[perm[k]]]

\* C13: grid search is order-independent: evaluating the valid combinations
\* in any order yields the best_params and best_value the search arrived at,
\* also when several combinations have the same objective value.
C13_GridOrderIndependent ==
    GridLoopDone =>
        \A perm \in Permutations(1..Len(trials)) :
            LET found == GridLoop(Reordered(perm), 1,
                                  [best_value |-> NegInf, best_params |-> NoParams])
            IN  /\ found.best_value = best_value
                /\ found.best_params = best_params

\* C14: two Bayesian searches of the same configuration, price series and
\* strategy use the same fixed seed and therefore propose the same sequence
\* of parameter sets (and so return the same best_params): whatever this run
\* has proposed, the second run has proposed too.
C14_SameSeedSameProposals ==
    optimizer_type = "bayesian" => twin

(***************************************************************************)
(* Properties of the end of a Bayesian search.                             *)
(***************************************************************************)
Min(a, b) == IF a < b THEN a ELSE b

\* the distinct parameter sets among the rows of st with index in rows
DistinctParams(st, rows) == {st[k].params : k \in rows}

\* C15: the top-trials list has at most 5 entries, no two of them with the
\* same parameter key, and it ends with min(5, number of distinct keys among
\* the recorded trials) entries (3 distinct keys give exactly 3).
C15_TopTrialsDistinctAndCapped ==
    /\ Len(top_trials) <= 5
    /\ \A j, k \in 1..Len(top_trials) :
          j # k => top_trials[j].params # top_trials[k].params
    /\ pc \in {"diverse", "tpe.diverse", "tpe.unique"} =>
          Len(top_trials) = Min(5, Cardinality(DistinctParams(study, visited)))
    /\ (pc = "returned" /\ optimizer_type \in {"bayesian", "none"}) =>
          /\ Len(result.top_trials) = Min(5, Cardinality(DistinctParams(study, 1..Len(study))))
          /\ Cardinality(DistinctParams(study, 1..Len(study))) = 3 => Len(result.top_trials) = 3

C15_Witness ==
    /\ pc = "returned"
    /\ Len(study) = 7
    /\ Cardinality(DistinctParams(study, 1..Len(study))) = 6
    /\ Len(result.top_trials) = 5

\* C16: every parameter set execute_trades is run with during a search, in
\* an objective evaluation, in the final backtest of best_params and in the
\* recomputation of the top trials' statistics, satisfies
\* validate_parameters, also when some or all trials were rejected with
\* -inf.
C16_SimulatedParamsAreValid ==
    \A k \in 1..Len(sim_calls) : validate_parameters(sim_calls[k].params)

\* the calls of execute_trades made by a trial's objective
TrialSites == {"_objective", "_objective_func"}

\* C17: an exception raised inside a trial's simulation reaches the caller
\* of optimize and ends the search, in grid and in Bayesian mode: the
\* raising call is the last one made, the run has raised that exception,
\* and no trial whose simulation raises is recorded with a value.
C17_TrialExceptionPropagates ==
    /\ \A k \in 1..Len(sim_calls) :
          (sim_calls[k].site \in TrialSites /\ SimRaises(sim_calls[k].params)) =>
              /\ k = Len(sim_calls)
              /\ pc = "raised"
              /\ result.during = "trial"
              /\ result.exception = SimException(sim_calls[k].params)
    /\ \A k \in 1..Len(trials) : ~SimRaises(trials[k].params)
    /\ \A k \in 1..Len(study) : study[k].sims >= 1 => ~SimRaises(study[k].params)

C17_Witness ==
    /\ optimizer_type = "bayesian"
    /\ pc = "raised"
    /\ result.during = "trial"
    /\ result.exception = "KeyError"
    /\ Len(study) >= 1
    /\ \A k \in 1..Len(study) : study[k].value = NegInf /\ study[k].sims = 0

\* C18: no trial changes the optimizer's price series: after any sequence
\* of generate_signals / execute_trades calls with any parameter sets the
\* data has the columns, the rows and the values it had before the search.
C18_DataUnchanged ==
    /\ data_columns = data0.columns
    /\ closes = data0.close
    /\ Frame(data_columns, closes) = data0

C18_Witness ==
    /\ Len(sim_calls) >= 2
    /\ sim_calls[1].params # sim_calls[2].params
    /\ \A k \in 1..Len(sim_calls) : ~SimRaises(sim_calls[k].params)
    /\ SignalsFrame(data0).columns # data0.columns

\* the bars (python index) that count as near bar 10
NearBarTen == 8..11

\* C19: on a strictly increasing close series of 100 bars the
\* moving-average-cross strategy with fast_ma = 3, slow_ma = 10 gives
\* exactly one LONG entry signal, near bar 10, and no SHORT signal, and the
\* ledger is one long trade force-closed at the last bar with the positive
\* pnl (last_close - entry_price) / entry_price.
C19_OneLongEntryOnRisingSeries ==
    (Len(closes) = ExampleBars /\ pc = "done") =>
        /\ Cardinality({k \in 0..LastIndex : SignalAt(k) = 1}) = 1
        /\ \A k \in 0..LastIndex : SignalAt(k) = 1 => k \in NearBarTen
        /\ \A k \in 0..LastIndex : SignalAt(k) # -1
        /\ Len(self_trades) = 1
        /\ self_trades[1].type = "long"
        /\ self_trades[1].exit_time = TimeOf(LastIndex)
        /\ RLt(Zero, self_trades[1].pnl)
        /\ self_trades[1].pnl =
              Norm(CloseAt(LastIndex) - self_trades[1].entry_price,
                   self_trades[1].entry_price)

\* C20: both search modes return a result of the same shape: a record with
\* best_params, best_value and top_trials, each top trial with params, value
\* and trade_stats.
C20_SameResultShape ==
    pc = "returned" =>
        /\ DOMAIN result = {"best_params", "best_value", "top_trials"}
        /\ \A k \in 1..Len(result.top_trials) :
              DOMAIN result.top_trials[k] = {"params", "value", "trade_stats"}

(***************************************************************************)
(* Properties of the strategy registry.                                    *)
(***************************************************************************)
\* the register calls made with a class of this name
RegisteredAs(name) == {k \in 1..Len(reg_log) : StrategyName(reg_log[k]) = name}

\* the class of the latest of them
LastRegistered(name) ==
    reg_log[CHOOSE k \in RegisteredAs(name) : \A j \in RegisteredAs(name) : j <= k]

RegisteredNames == {StrategyName(reg_log[k]) : k \in 1..Len(reg_log)}

\* C21: after any sequence of register calls get_strategy(name) returns the
\* class most recently registered under the name, list_strategies returns
\* exactly the registered names, and get_strategy raises ValueError exactly
\* when no class was registered under the name; the registry holds what the
\* register calls put there, whatever was looked up.
C21_RegistryLastWriterWins ==
    /\ {_strategies[k].name : k \in 1..Len(_strategies)} = RegisteredNames
    /\ \A j, k \in 1..Len(_strategies) :
          j # k => _strategies[j].name # _strategies[k].name
    /\ \A name \in RegisteredNames : Lookup(_strategies, name) = LastRegistered(name)
    /\ reg_result.op = "get_strategy" =>
          /\ reg_result.raised <=> (RegisteredAs(reg_result.name) = {})
          /\ reg_result.raised => reg_result.value = "ValueError"
          /\ ~reg_result.raised => reg_result.value = LastRegistered(reg_result.name)
    /\ reg_result.op = "list_strategies" =>
          /\ {reg_result.value[k] : k \in 1..Len(reg_result.value)} = RegisteredNames
          /\ Len(reg_result.value) = Cardinality(RegisteredNames)

C21_Witness ==
    /\ reg_result.op = "get_strategy"
    /\ ~reg_result.raised
    /\ reg_result.value = "TunedMACrossStrategy"
    /\ reg_log = <<"MACrossStrategy", "RSIStrategy", "TunedMACrossStrategy">>

(***************************************************************************)
(* Termination of the searches.                                            *)
(***************************************************************************)
\* control has left the trials: the final backtest was reached, or the
\* search raised
TrialsOver == pc \in {"diverse", "returned", "raised"}

TrialsCompleted ==
    \/ pc \in {"diverse", "returned"}
    \/ pc = "raised" /\ result.during = "backtest"

\* C22: absent a simulation exception every search terminates: the Bayesian
\* search stops after exactly n_trials trials, 100 when n_trials is not
\* given, and the grid search after each valid combination was evaluated
\* exactly once.
C22_SearchTerminates ==
    /\ <>TrialsOver
    /\ [](TrialsCompleted =>
            IF optimizer_type = "grid"
            THEN /\ Len(trials) = Cardinality(ValidCombinations)
                 /\ {trials[k].params : k \in 1..Len(trials)} = ValidCombinations
            ELSE Len(study) = (IF n_trials.given THEN n_trials.value ELSE 100))

C22_Witness ==
    /\ pc = "diverse"
    /\ ~n_trials.given
    /\ Len(study) = 100

(***************************************************************************)
(* Flips, the first bar and the shape of the ledger.                       *)
(***************************************************************************)
\* the loop is about to process bar i with a position open and the opposite
\* signal on the bar
FlipDue ==
    /\ pc = "loop"
    /\ i < Len(signals)
    /\ HasPosition(position)
    /\ SignalAt(i) = Opposite(position.type)

\* C23: a bar whose signal is opposite to the open position is processed in
\* one iteration that appends the closing trade of the old position (its
\* entry, exit at this bar's close and timestamp) and leaves a new position
\* of the opposite side entered at the same close and timestamp.
C23_FlipOnSameBar ==
    [][FlipDue =>
          /\ i' = i + 1
          /\ trades' = Append(trades, ClosingTrade(position, TimeOf(i), CloseAt(i)))
          /\ HasPosition(position')
          /\ position'.type # position.type
          /\ position'.type = (IF SignalAt(i) = 1 THEN "long" ELSE "short")
          /\ position'.entry_time = trades'[Len(trades')].exit_time
          /\ position'.entry_price = trades'[Len(trades')].exit_price
          /\ position'.entry_time = TimeOf(i)
          /\ position'.entry_price = CloseAt(i)
          /\ opened' = opened + 1]_vars

C23_Witness ==
    /\ pc = "loop"
    /\ i >= 3
    /\ Len(trades) >= 1
    /\ HasPosition(position)
    /\ trades[Len(trades)].exit_time = TimeOf(i - 1)
    /\ position.entry_time = TimeOf(i - 1)
    /\ position.type # trades[Len(trades)].type
    /\ SignalAt(i - 1) = Opposite(trades[Len(trades)].type)

OnlyFirstSignalSet ==
    /\ signals[1] # 0
    /\ \A k \in 2..Len(signals) : signals[k] = 0

\* C24: no decision is taken on the bar of index 0: every trade of the
\* ledger and the open position were entered at an index >= 1, no position
\* is open when the loop reaches index 1, and a series whose only non-zero
\* signal is the first one gives an empty ledger.
C24_FirstBarSkipped ==
    /\ \A k \in 1..Len(trades) : trades[k].entry_time >= 1
    /\ HasPosition(position) => position.entry_time >= 1
    /\ (pc = "loop" /\ i <= 1) => (~HasPosition(position) /\ trades = <<>>)
    /\ (OnlyFirstSignalSet /\ Returned) => (self_trades = <<>> /\ opened = 0)

C24_Witness ==
    /\ pc = "done"
    /\ OnlyFirstSignalSet
    /\ Len(signals) >= 3
    /\ self_trades = <<>>

\* the drawdown of the cumulative sum of a pnl sequence: the largest
\* (peak - value)/peak along the path, peak being the running maximum
RECURSIVE LargestOf(_)
LargestOf(s) ==
    IF s = <<>> THEN FZero
    ELSE LET rest == LargestOf(Tail(s))
         IN  IF FGreater(Head(s), rest) THEN Head(s) ELSE rest

PeakAt(path, k) ==
    CHOOSE p \in {path[j] : j \in 1..k} : \A j \in 1..k : ~FGreater(path[j], p)

CumulativeSumDrawdown(pnl) ==
    LET path == CumSum(pnl)
    IN  LargestOf([k \in 1..Len(pnl) |->
                     IF FIsZero(PeakAt(path, k)) THEN FZero
                     ELSE FDiv(FSub(PeakAt(path, k), path[k]), PeakAt(path, k))])

NeverDrops(path) == \A k \in 2..Len(path) : ~FLess(path[k], path[k - 1])

\* max_drawdown as a double: strategy_management reports one, the value of
\* strategy_base is exact
DrawdownOf(record) ==
    IF "kind" \in DOMAIN record.max_drawdown THEN record.max_drawdown
    ELSE FromRat(record.max_drawdown)

\* C25: for a non-empty ledger the max_drawdown of calculate_performance is
\* the drawdown of the cumulative sum of the pnl (not of the compounded
\* equity curve), and it is 0 when that path never drops below its peak.
C25_DrawdownOnCumulativeSum ==
    (AtPerf /\ self_trades # <<>>) =>
        /\ DrawdownOf(metrics) = CumulativeSumDrawdown(PnlOf(self_trades))
        /\ NeverDrops(CumSum(PnlOf(self_trades))) => FIsZero(DrawdownOf(metrics))

(***************************************************************************)
(* Properties of the returned top trials and of the search results.        *)
(***************************************************************************)
\* C26: the top-trials list is in descending order of value, and the value
\* of each entry is the objective value the study recorded for a trial with
\* the entry's parameters, -inf included.
C26_TopTrialsDescendingRecorded ==
    /\ \A k \in 1..(Len(top_trials) - 1) :
          ~RLt(top_trials[k].value, top_trials[k + 1].value)
    /\ \A k \in 1..Len(top_trials) :
          \E r \in 1..Len(study) :
              /\ study[r].params = top_trials[k].params
              /\ study[r].value = top_trials[k].value

(***************************************************************************)
(* Properties of the signal rule and of repeated runs.                     *)
(***************************************************************************)
SignalsGenerated == pc # "example"

\* C27: the signal column generate_signals returns has one entry per bar of
\* the price series, also when the series is shorter than the windows, and
\* its entry is 0 on every bar of index < slow_ma.
C27_WarmUpEmitsNoSignal ==
    SignalsGenerated =>
        /\ Len(signals) = Len(closes)
        /\ DOMAIN signals = DOMAIN closes
        /\ \A k \in 0..(Len(signals) - 1) :
              k < parameters.slow_ma => SignalAt(k) = 0
        /\ Len(closes) <= parameters.slow_ma => AllSignalsZero

C27_Witness ==
    /\ pc = "idle"
    /\ Len(closes) > parameters.slow_ma
    /\ SignalAt(parameters.slow_ma) # 0
    /\ \A k \in 0..(parameters.slow_ma - 1) : SignalAt(k) = 0

AllZeroMetrics == \A f \in DOMAIN metrics : IsZeroField(metrics[f])

\* C28: runs on one instance do not accumulate: every run starts with an
\* empty ledger and no position, the ledger of every run is the one a run on
\* a new instance gives, so a second run returns a ledger equal to the
\* first one's and not the first one's extended, and calculate_performance
\* gives the metrics of the last returned ledger, all zero before any run.
C28_RunsDoNotAccumulate ==
    /\ (pc = "loop" /\ i = LoopStart(signals)) =>
          (trades = <<>> /\ ~HasPosition(position) /\ opened = 0)
    /\ (pc \in {"done", "perf"} /\ runs >= 1) =>
          self_trades = execute_trades(closes, signals)
    /\ (pc \in {"done", "perf"} /\ runs >= 2) =>
          (self_trades = prev_trades /\ Len(self_trades) = Len(prev_trades))
    /\ (pc = "perf" /\ runs = 0) => AllZeroMetrics
    /\ (pc = "perf" /\ runs >= 1) =>
          metrics = calculate_performance(execute_trades(closes, signals))

C28_Witness ==
    /\ pc = "perf"
    /\ runs = 2
    /\ Len(prev_trades) >= 2
    /\ self_trades = prev_trades
    /\ metrics.total_trades = Rat(Len(prev_trades))

\* the loop is about to process bar i with a position open and a signal of
\* the position's own side on the bar
SameSideDue ==
    /\ pc = "loop"
    /\ i < Len(signals)
    /\ HasPosition(position)
    /\ SignalAt(i) = Entering(position.type)

\* consecutive trades alternate sides and each is entered where and when the
\* previous one was exited
Chained(ledger) ==
    \A k \in 1..(Len(ledger) - 1) :
        /\ ledger[k + 1].type # ledger[k].type
        /\ ledger[k + 1].entry_time = ledger[k].exit_time
        /\ ledger[k + 1].entry_price = ledger[k].exit_price

\* C29: once a position was opened the loop never ends a bar flat: the
\* position open after a close was entered on the closing bar at its close
\* with the opposite side, so the trades of every ledger are chained with
\* alternating sides; and a bar whose signal has the side of the open
\* position changes neither the position nor the ledger.
C29_NeverFlatAfterFirstEntry ==
    /\ [](/\ Chained(trades)
          /\ Chained(self_trades)
          /\ (pc = "loop" /\ opened >= 1) => HasPosition(position)
          /\ (pc = "loop" /\ trades # <<>>) =>
                /\ position.type # trades[Len(trades)].type
                /\ position.entry_time = trades[Len(trades)].exit_time
                /\ position.entry_price = trades[Len(trades)].exit_price)
    /\ [][SameSideDue => (position' = position /\ trades' = trades /\ opened' = opened)]_vars

C29_Witness ==
    /\ pc = "done"
    /\ Len(self_trades) >= 2
    /\ \E k \in 1..(Len(self_trades) - 1) :
          \E j \in (self_trades[k].entry_time + 1)..(self_trades[k].exit_time - 1) :
              SignalAt(j) = Entering(self_trades[k].type)

\* the grid search has evaluated every valid combination and left its loop
GridCompleted ==
    /\ optimizer_type = "grid"
    /\ pc # "grid"
    /\ trials # <<>>
    /\ Len(trials) = Len(_generate_combinations(param_grid(self_parameter_space)))

\* C30: a grid search over at least one valid combination returns a result
\* whose best_value is the largest recorded value and whose best_params is
\* the first recorded combination of that value, also when every
\* combination was recorded with -inf.
C30_GridReturnsMaximum ==
    GridCompleted =>
        /\ pc = "returned"
        /\ \A k \in 1..Len(trials) : ~RGt(trials[k].value, result.best_value)
        /\ \E k \in 1..Len(trials) :
              /\ trials[k].params = result.best_params
              /\ trials[k].value = result.best_value
              /\ \A j \in 1..(k - 1) : trials[j].value # result.best_value

====
